---- MODULE Spec2Model ----
(***************************************************************************)
(* A model of btn: a local SQLite cache of the tracker's metadata catalog  *)
(* (series -> torrent_entry_group -> torrent_entry), the changestamp       *)
(* counter, the contiguous-page reconciliation and the backfill scraper.   *)
(***************************************************************************)
EXTENDS Integers, Sequences, FiniteSets, Bags, TLC

\* ------------------------------------------------------------------------
\* Bounds of the model
\* ------------------------------------------------------------------------
\* Torrent ids are 1..MaxId; the remote hands them out in increasing order.
MaxId == 3
\* The changestamp counter is explored up to this value.
MaxStamp == 4
\* The same two bounds for the specification of the cache store, where the
\* parents of the remote's entities vary ...
StoreMaxId == 3
StoreMaxStamp == 4
\* ... for the one of the upsert contract, where the columns of an entity
\* and of its parents vary ...
UpsertMaxId == 1
UpsertMaxStamp == 3
\* ... for the one of two concurrent workers ...
ConcMaxId == 2
ConcMaxStamp == 5
\* ... for the one of a single pass over a catalog that does not change ...
PassMaxId == 3
PassMaxStamp == 9
\* ... and for the one of the metafile cache.
MetaMaxId == 2
MetaMaxStamp == 3
\* ... where the tip scraper catches up with one new upload; the feed
\* lists FeedSize ids, the cache's head is read up to DbIdsLimit ids
\* ("limit 1000").
TipMaxId == 4
TipMaxRpcs == 3
\* ... where the file-layout scraper runs.
FilerMaxId == 2
FilerMaxStamp == 5
\* ... where it runs for ever.
RetryMaxStamp == 3
\* ... where the tip scraper makes its passes from a fresh cache.
SessionMaxId == 3
FeedSize == 2
DbIdsLimit == 3
\* ... where write transactions collide.
BusyMaxId == 1
BusyMaxStamp == 4
\* ... and where two workers fetch the pages of one pass.
OverlapMaxId == 3
OverlapMaxStamp == 4
\* A metafile lists up to MaxFiles files of up to MaxLength bytes each.
MaxFiles == 3
MaxLength == 2
\* api_token_rate (150 by default), scaled down.
Rate == 2
\* api_token_period, in clock ticks: a multiple of Rate + 1, so that the
\* timestamps fill computes are whole ticks.
Period == Rate + 1
\* token_rate (20 by default), scaled down, and token_period in clock ticks.
TokenRate == 2
TokenPeriod == TokenRate + 1
\* The clock is explored up to this tick.
MaxTime == 6
\* MetadataScraper.BLOCK_SIZE (1000 in the source), scaled down: the number
\* of entries the remote returns per getTorrents page.
BLOCK_SIZE == 2
ThrottleMaxId == 1
ThrottleMaxStamp == 3
ThrottleMaxTime == 2

GroupIds == {1, 2}
SeriesIds == {1, 2}
\* The values of the columns that are copied verbatim from the remote JSON.
Values == {0, 1}
Workers == {1, 2}

\* Python's None (a missing row, an unset key of the global table).
None == 0 - 1

VARIABLES
    db,          \* metadata.db and user.db as seen by the connection that
                 \* holds the write lock (the committed state when lock = None)
    remote,      \* the tracker's catalog: ids that exist, highest id issued
    pc,          \* pc[w]: position of backfill worker w in run/update_step
    loc,         \* loc[w]: the locals of worker w's current update_step
    lock,        \* the connection holding SQLite's write lock, or None
    issued,      \* history: the values returned by get_changestamp, in order
    reconciled,  \* history: offsets whose reconciliation committed this pass
    handed,      \* history: the offsets update_step has read in this pass
    client,      \* the TorrentEntry last returned by getTorrentById, or None
    api_token_bucket,  \* the consumption timestamps the API bucket records
    now,         \* time.time()
    caller,      \* caller[c]: where thread c is in call_api, and its call_time
    raised,      \* raised[c]: the exception thread c's latest call raised
    ledger,      \* history: ledger[w] counts worker w's tokens and RPCs
    token_bucket,  \* the generic bucket: its level and last refill time
    probe,       \* what the latest try_consume(0) returned, and when
    disk,        \* the ids whose metafile torrents/<id>.torrent exists
    entry,       \* entry[o]: the TorrentEntry object o (id, _lock, _raw_torrent)
    getter,      \* getter[t]: where thread t is in TorrentEntry.raw_torrent
    downloads,   \* history: downloads[id] counts the HTTP fetches of a metafile
    busy,        \* history: the write paths that met BusyError, and how it ended
    from_tobj,   \* the generator FileInfo._from_tobj: its input and its locals
    tip,         \* the tip_* keys of user.global
    tipper,      \* where the tip scraper is in scrape_step, and its locals
    rpcs,        \* history: the getTorrents calls the tip scraper has made
    filer,       \* the TorrentFileScraper: ts, queue and where its step is
    store_raw_torrent  \* the API's setting: whether metafiles go to disk

webVars == <<token_bucket, probe>>
bucketVars == <<api_token_bucket, now, caller, raised, ledger, webVars>>
scraperVars ==
    <<db, remote, pc, loc, lock, issued, reconciled, handed, client>>
metafileVars == <<disk, entry, getter, downloads>>
tipVars == <<tip, tipper, rpcs>>
fileVars == <<filer, store_raw_torrent>>
restVars == <<metafileVars, busy, from_tobj, tipVars, fileVars>>
vars == <<scraperVars, bucketVars, restVars>>

\* ------------------------------------------------------------------------
\* Helpers
\* ------------------------------------------------------------------------
Max(S) == CHOOSE x \in S : \A y \in S : y <= x
Min(S) == CHOOSE x \in S : \A y \in S : x <= y

\* ------------------------------------------------------------------------
\* The cache store: Series, Group and TorrentEntry rows
\* ------------------------------------------------------------------------
\* An entity as _torrent_entry_from_json builds it: a TorrentEntry with its
\* Group and Series.  "important" stands for the important_params columns
\* the remote sends (codec .. time), "counters" for (snatched, seeders,
\* leechers), "series_params" for the series columns.
Entities(ids, fields) ==
    [id : ids, group_id : fields.group_id, series_id : fields.series_id,
     important : fields.important, counters : fields.counters,
     series_params : fields.series_params]

\* The update of Series.serialize fires when a column "is not" its new value.
Series_differs(row, e) ==
    row.params # e.series_params \/ row.deleted # 0

Series_serialize(d, e, changestamp) ==
    LET new == [params |-> e.series_params, updated_at |-> changestamp,
                deleted |-> 0]
    IN  IF e.series_id \notin DOMAIN d.series
          THEN [d EXCEPT !.series = (e.series_id :> new) @@ @]
        ELSE IF Series_differs(d.series[e.series_id], e)
          THEN [d EXCEPT !.series[e.series_id] = new]
        ELSE d

Series_maybe_delete(d, ids, changestamp) ==
    LET series_ids_to_delete ==
            {s \in ids \cap DOMAIN d.series :
                /\ d.series[s].deleted = 0
                /\ ~\E g \in DOMAIN d.torrent_entry_group :
                       /\ d.torrent_entry_group[g].series_id = s
                       /\ d.torrent_entry_group[g].deleted = 0}
    IN  [d EXCEPT !.series =
            [s \in DOMAIN @ |->
                IF s \in series_ids_to_delete
                  THEN [@[s] EXCEPT !.deleted = 1, !.updated_at = changestamp]
                  ELSE @[s]]]

\* A where clause that does not look at the deletion mark.
Group_differs_link(row, e) ==
    row.series_id # e.series_id

\* Of the columns Group.serialize compares (category, name, series_id,
\* deleted) the model keeps the parent link and the deletion mark.
Group_differs(row, e) ==
    row.series_id # e.series_id \/ row.deleted # 0

Group_serialize(d, e, changestamp) ==
    LET old_series_id ==
            IF e.group_id \in DOMAIN d.torrent_entry_group
              THEN d.torrent_entry_group[e.group_id].series_id ELSE None
        d1 == Series_serialize(d, e, changestamp)
        new == [series_id |-> e.series_id, updated_at |-> changestamp,
                deleted |-> 0]
        d2 == IF e.group_id \notin DOMAIN d1.torrent_entry_group
                THEN [d1 EXCEPT !.torrent_entry_group = (e.group_id :> new) @@ @]
              ELSE IF Group_differs(d1.torrent_entry_group[e.group_id], e)
                THEN [d1 EXCEPT !.torrent_entry_group[e.group_id] = new]
              ELSE d1
    IN  IF old_series_id # e.series_id
          THEN Series_maybe_delete(d2, {old_series_id}, changestamp)
          ELSE d2

\* A Group._maybe_delete that does not go on to Series._maybe_delete.
Group_maybe_delete_alone(d, ids, changestamp) ==
    LET group_ids_to_delete ==
            {g \in ids \cap DOMAIN d.torrent_entry_group :
                /\ d.torrent_entry_group[g].deleted = 0
                /\ ~\E t \in DOMAIN d.torrent_entry :
                       /\ d.torrent_entry[t].group_id = g
                       /\ d.torrent_entry[t].deleted = 0}
    IN  [d EXCEPT !.torrent_entry_group =
            [g \in DOMAIN @ |->
                IF g \in group_ids_to_delete
                  THEN [@[g] EXCEPT !.deleted = 1, !.updated_at = changestamp]
                  ELSE @[g]]]

Group_maybe_delete(d, ids, changestamp) ==
    LET group_ids_to_delete ==
            {g \in ids \cap DOMAIN d.torrent_entry_group :
                /\ d.torrent_entry_group[g].deleted = 0
                /\ ~\E t \in DOMAIN d.torrent_entry :
                       /\ d.torrent_entry[t].group_id = g
                       /\ d.torrent_entry[t].deleted = 0}
        series_ids_to_check ==
            {d.torrent_entry_group[g].series_id : g \in group_ids_to_delete}
        d1 == [d EXCEPT !.torrent_entry_group =
                [g \in DOMAIN @ |->
                    IF g \in group_ids_to_delete
                      THEN [@[g] EXCEPT !.deleted = 1,
                                        !.updated_at = changestamp]
                      ELSE @[g]]]
    IN  IF group_ids_to_delete = {} THEN d
        ELSE Series_maybe_delete(d1, series_ids_to_check, changestamp)

\* The property TorrentEntry.raw_torrent_cached, as the column value
\* serialize stores: os.path.exists(self.raw_torrent_path).
raw_torrent_cached(id) == IF id \in disk THEN 1 ELSE 0

\* A where clause that is always true: every upsert rewrites the row.
TorrentEntry_differs_always(row, e) == TRUE

\* A where clause that also compares the counters.
TorrentEntry_differs_counters(row, e) ==
    \/ row.group_id # e.group_id
    \/ row.important # e.important
    \/ row.raw_torrent_cached # raw_torrent_cached(e.id)
    \/ row.counters # e.counters
    \/ row.deleted # 0

\* The where clause of the first update of TorrentEntry.serialize.
TorrentEntry_differs(row, e) ==
    \/ row.group_id # e.group_id
    \/ row.important # e.important
    \/ row.raw_torrent_cached # raw_torrent_cached(e.id)
    \/ row.deleted # 0

\* An update that rewrites the important columns and forgets the counters.
TorrentEntry_update_important(row, e, changestamp) ==
    IF TorrentEntry_differs(row, e)
      THEN [group_id |-> e.group_id, important |-> e.important,
            raw_torrent_cached |-> raw_torrent_cached(e.id),
            counters |-> row.counters, updated_at |-> changestamp,
            deleted |-> 0]
      ELSE [row EXCEPT !.counters = e.counters]

\* The row an existing torrent_entry row becomes: every column and
\* updated_at when an important column differs, else the counters alone.
TorrentEntry_update(row, e, changestamp) ==
    IF TorrentEntry_differs(row, e)
      THEN [group_id |-> e.group_id, important |-> e.important,
            raw_torrent_cached |-> raw_torrent_cached(e.id),
            counters |-> e.counters, updated_at |-> changestamp,
            deleted |-> 0]
      ELSE [row EXCEPT !.counters = e.counters]

\* The number of files in the metafile the remote serves for an id.
NumFiles(id) == id

\* The end of TorrentEntry.serialize: when the metafile is on disk and the
\* file_info table has no row for the id, the FileInfo records of the
\* metafile are inserted ("insert or ignore"), all under the changestamp.
FileInfo_insert(d, id, changestamp) ==
    IF id \in disk /\ id \notin DOMAIN d.file_info
      THEN [d EXCEPT !.file_info =
               (id :> [updated_at |-> changestamp,
                       file_index |-> 0..(NumFiles(id) - 1)]) @@ @]
      ELSE d

TorrentEntry_serialize(d, e, changestamp) ==
    LET old_group_id ==
            IF e.id \in DOMAIN d.torrent_entry
              THEN d.torrent_entry[e.id].group_id ELSE None
        d1 == Group_serialize(d, e, changestamp)
        new == [group_id |-> e.group_id, important |-> e.important,
                raw_torrent_cached |-> raw_torrent_cached(e.id),
                counters |-> e.counters, updated_at |-> changestamp,
                deleted |-> 0]
        d2 == IF e.id \notin DOMAIN d1.torrent_entry
                THEN [d1 EXCEPT !.torrent_entry = (e.id :> new) @@ @]
                ELSE [d1 EXCEPT !.torrent_entry[e.id] =
                        TorrentEntry_update(@, e, changestamp)]
        d3 == IF old_group_id # e.group_id
                THEN Group_maybe_delete(d2, {old_group_id}, changestamp)
                ELSE d2
    IN  FileInfo_insert(d3, e.id, changestamp)

\* ------------------------------------------------------------------------
\* The changestamp counter (the "changestamp" row of user.global)
\* ------------------------------------------------------------------------
\* A get_changestamp that returns the counter as it is.
get_changestamp_stale(d) == d.global.changestamp

\* A get_changestamp that steps the counter the wrong way.
get_changestamp_decrements(d) == d.global.changestamp - 1

\* get_changestamp reads the counter and adds one ...
get_changestamp_read(d) == d.global.changestamp + 1

\* ... and writes the new value back with set_global.
get_changestamp_write(d, changestamp) ==
    [d EXCEPT !.global.changestamp = changestamp]

\* A transaction opened without taking the write lock ("begin deferred").
LockNotTaken(w) == TRUE

\* "begin immediate" succeeds only when no other connection holds the write
\* lock; a savepoint's first write statement needs the same lock.
LockFree(w) == lock = None \/ lock = w

\* ------------------------------------------------------------------------
\* Contiguous-page reconciliation
\* ------------------------------------------------------------------------
\* An end-page update without "and not deleted" in its where clause.
delete_below_deleted(d, bound, changestamp) ==
    [d EXCEPT !.torrent_entry =
        [t \in DOMAIN @ |->
            IF t < bound
              THEN [@[t] EXCEPT !.deleted = 1, !.updated_at = changestamp]
              ELSE @[t]]]

\* "update torrent_entry set deleted = 1, updated_at = ? where id < ? and
\* not deleted", run for an end page with the page's smallest id.
delete_below(d, bound, changestamp) ==
    [d EXCEPT !.torrent_entry =
        [t \in DOMAIN @ |->
            IF @[t].deleted = 0 /\ t < bound
              THEN [@[t] EXCEPT !.deleted = 1, !.updated_at = changestamp]
              ELSE @[t]]]

\* "... where not deleted and id < ? and id > ? and id not in (temp.ids)",
\* run with the page's largest and smallest id.
delete_window(d, ids, changestamp) ==
    [d EXCEPT !.torrent_entry =
        [t \in DOMAIN @ |->
            IF /\ @[t].deleted = 0
               /\ t < Max(ids)
               /\ t > Min(ids)
               /\ t \notin ids
              THEN [@[t] EXCEPT !.deleted = 1, !.updated_at = changestamp]
              ELSE @[t]]]

\* An end test that misses the page ending exactly at the last entry.
is_end_strict(offset, ids, results) == offset + Cardinality(ids) > results

is_end(offset, ids, results) == offset + Cardinality(ids) >= results

apply_contiguous_results_locked(d, offset, ids, results) ==
    IF ids = {} THEN d
    ELSE LET changestamp == get_changestamp_read(d)
             d0 == get_changestamp_write(d, changestamp)
             d1 == IF is_end(offset, ids, results)
                     THEN delete_below(d0, Min(ids), changestamp)
                     ELSE d0
         IN  delete_window(d1, ids, changestamp)

\* ------------------------------------------------------------------------
\* The remote catalog and its getTorrents pages
\* ------------------------------------------------------------------------
\* The reply to getTorrents(results=2**31, offset): the remote lists its
\* torrents newest (largest id) first and returns at most BLOCK_SIZE of them
\* starting at position offset, with the total count as "results".
Page(ids, offset) ==
    {i \in ids :
        LET rank == Cardinality({j \in ids : j > i})
        IN  offset <= rank /\ rank < offset + BLOCK_SIZE}

\* A new upload gets the next id; any torrent may be removed.
RemoteAdd(maxid) ==
    /\ remote.born < maxid
    /\ remote' = [ids |-> remote.ids \cup {remote.born + 1},
                  born |-> remote.born + 1]
    /\ UNCHANGED <<db, pc, loc, lock, issued, reconciled, handed, client,
                   bucketVars, restVars>>

RemoteDelete ==
    /\ \E i \in remote.ids : remote' = [remote EXCEPT !.ids = @ \ {i}]
    /\ UNCHANGED <<db, pc, loc, lock, issued, reconciled, handed, client,
                   bucketVars, restVars>>

\* ------------------------------------------------------------------------
\* API.getTorrentById, called by a user of the API
\* ------------------------------------------------------------------------

\* The changestamps the update_steps in progress will still draw: one for
\* the upserts of getTorrents, one for the reconciliation.  A step or a call
\* starts only while the counter has room for them.
Pending(w) ==
    IF pc[w] \in {"rpc", "begin", "stamp_read", "stamp_write"} THEN 2
    ELSE IF pc[w] \in {"serialize", "reconcile"} THEN 1
    ELSE 0

RECURSIVE Reserved(_)
Reserved(ws) ==
    IF ws = {} THEN 0
    ELSE LET w == CHOOSE x \in ws : TRUE
         IN  Pending(w) + Reserved(ws \ {w})

NoEntity ==
    [id |-> None, group_id |-> None, series_id |-> None,
     important |-> None, counters |-> None, series_params |-> None]

\* The RPC answers with the entity when the id exists on the remote; the
\* entity is serialized in a transaction of its own ("with self.db"), under
\* a changestamp that serialize draws itself.  The caller either holds on to
\* the TorrentEntry returned or drops it at once.
GetTorrentById(fields, cap, held) ==
    /\ client = NoEntity
    /\ LockFree(None)
    /\ db.global.changestamp + Reserved(Workers) < cap
    /\ \E e \in Entities(remote.ids, fields) :
         LET changestamp == get_changestamp_read(db)
         IN  /\ db' = TorrentEntry_serialize(
                        get_changestamp_write(db, changestamp), e, changestamp)
             /\ issued' = Append(issued, changestamp)
             /\ client' = IF held THEN e ELSE NoEntity
    /\ UNCHANGED <<remote, pc, loc, lock, reconciled, handed, bucketVars,
                   restVars>>

\* The caller drops the TorrentEntry it held.
ClientReturn ==
    /\ client # NoEntity
    /\ client' = NoEntity
    /\ UNCHANGED <<db, remote, pc, loc, lock, issued, reconciled, handed,
                   bucketVars, restVars>>

\* ------------------------------------------------------------------------
\* MetadataScraper: the backfill worker's run loop and update_step
\* ------------------------------------------------------------------------
NoLocals ==
    [offset |-> None, ids |-> {}, results |-> None, changestamp |-> None,
     todo |-> {}, te |-> NoEntity, found |-> None]

\* get_int(api, key) or 0
get_int_or_0(v) == IF v = None THEN 0 ELSE v

\* The cursor stored by the first transaction of update_step.
next_offset(offset, results) ==
    IF results # None /\ results # 0 /\ offset + BLOCK_SIZE - 1 > results
      THEN 0
      ELSE offset + BLOCK_SIZE - 1

\* Offsets are explored up to one page beyond the largest catalog.
MaxOffset == MaxId + BLOCK_SIZE

\* The history of the current pass once an update_step has ended: the step
\* that stored offset 0 as the next one was the last step of its pass.
PassProgress(done, offsets) ==
    IF db.global.scrape_next_offset = 0 THEN {} ELSE done \cup offsets

\* No offset handed out yet.  "offsets" lists the offsets read since the
\* cursor last wrapped, "wrapped" tells that the latest step stored 0.
NoPass == [offsets |-> <<>>, wrapped |-> FALSE]

\* An update_step that reads the cursor and leaves the store of the next
\* offset out.
UpdateStepCursor_stale(w, cap) ==
    /\ pc[w] = "idle"
    /\ LockFree(w)
    /\ db.global.changestamp + Reserved(Workers) + 2 <= cap
    /\ LET offset == get_int_or_0(db.global.scrape_next_offset)
       IN  /\ offset <= MaxOffset
           /\ Len(handed.offsets) <= MaxOffset
           /\ loc' = [loc EXCEPT ![w] = [NoLocals EXCEPT !.offset = offset]]
           /\ handed' = [handed EXCEPT !.offsets = Append(@, offset)]
    /\ pc' = [pc EXCEPT ![w] = "rpc"]
    /\ UNCHANGED <<db, remote, lock, issued, reconciled, client,
                   bucketVars, restVars>>

\* update_step up to the RPC: a token was obtained from the API bucket, and
\* one transaction reads the cursor and stores the next offset.
UpdateStepCursor(w, cap) ==
    /\ pc[w] = "idle"
    /\ LockFree(w)
    /\ db.global.changestamp + Reserved(Workers) + 2 <= cap
    /\ LET offset == get_int_or_0(db.global.scrape_next_offset)
           results == db.global.scrape_last_results
       IN  /\ offset <= MaxOffset
           /\ db' = [db EXCEPT !.global.scrape_next_offset =
                                    next_offset(offset, results)]
           /\ loc' = [loc EXCEPT ![w] = [NoLocals EXCEPT !.offset = offset]]
           /\ handed' =
                  [offsets |-> Append(IF handed.wrapped THEN <<>>
                                      ELSE handed.offsets, offset),
                   wrapped |-> next_offset(offset, results) = 0]
    /\ pc' = [pc EXCEPT ![w] = "rpc"]
    /\ UNCHANGED <<remote, lock, issued, reconciled, client,
                   bucketVars, restVars>>

\* The token bucket had no token to spare: update_step returns True and the
\* run loop sleeps.
UpdateStepNoToken(w) ==
    /\ pc[w] = "idle"
    /\ pc' = [pc EXCEPT ![w] = "sleep"]
    /\ UNCHANGED <<db, remote, loc, lock, issued, reconciled, handed, client,
                   bucketVars, restVars>>

\* time.sleep(60) is over.
Wake(w) ==
    /\ pc[w] = "sleep"
    /\ pc' = [pc EXCEPT ![w] = "idle"]
    /\ UNCHANGED <<db, remote, loc, lock, issued, reconciled, handed, client,
                   bucketVars, restVars>>

\* getTorrents: the RPC is answered with the page at the worker's offset.
Rpc(w) ==
    /\ pc[w] = "rpc"
    /\ LET ids == Page(remote.ids, loc[w].offset)
       IN  loc' = [loc EXCEPT ![w].ids = ids, ![w].todo = ids,
                              ![w].results = Cardinality(remote.ids)]
    /\ pc' = [pc EXCEPT ![w] = "begin"]
    /\ UNCHANGED <<db, remote, lock, issued, reconciled, handed, client,
                   bucketVars, restVars>>

\* getTorrents raises (call limit exceeded, HTTP error, unparsable data):
\* update_step returns True or raises, and the run loop sleeps.
RpcFail(w) ==
    /\ pc[w] = "rpc"
    /\ pc' = [pc EXCEPT ![w] = "sleep"]
    /\ loc' = [loc EXCEPT ![w] = NoLocals]
    /\ reconciled' = PassProgress(reconciled, {})
    /\ UNCHANGED <<db, remote, lock, issued, handed, client, bucketVars,
                   restVars>>

\* getTorrents opens its transaction with "begin immediate".
UpsertBegin(w) ==
    /\ pc[w] = "begin"
    /\ LockFree(w)
    /\ lock' = w
    /\ pc' = [pc EXCEPT ![w] = "stamp_read"]
    /\ UNCHANGED <<db, remote, loc, issued, reconciled, handed, client,
                   bucketVars, restVars>>

\* get_changestamp, first half: read the counter.
StampRead(w) ==
    /\ pc[w] = "stamp_read"
    /\ loc' = [loc EXCEPT ![w].changestamp = get_changestamp_read(db)]
    /\ pc' = [pc EXCEPT ![w] = "stamp_write"]
    /\ UNCHANGED <<db, remote, lock, issued, reconciled, handed, client,
                   bucketVars, restVars>>

\* The transaction of getTorrents commits once every entry is serialized.
Commit(w, todo) ==
    IF todo = {}
      THEN lock' = None /\ pc' = [pc EXCEPT ![w] = "reconcile"]
      ELSE lock' = lock /\ pc' = [pc EXCEPT ![w] = "serialize"]

\* get_changestamp, second half: write the counter back and return it.
StampWrite(w) ==
    /\ pc[w] = "stamp_write"
    /\ db' = get_changestamp_write(db, loc[w].changestamp)
    /\ issued' = Append(issued, loc[w].changestamp)
    /\ Commit(w, loc[w].todo)
    /\ UNCHANGED <<remote, loc, reconciled, handed, client, bucketVars,
                   restVars>>

\* One turn of "for te in tes: te.serialize(changestamp=changestamp)".  The
\* ids are those of the page; the other fields are whatever the remote sent.
\* History: the deletion mark of the torrent_entry row an upsert finds,
\* None when it finds no row.
Found(d, id) ==
    IF id \in DOMAIN d.torrent_entry THEN d.torrent_entry[id].deleted
    ELSE None

Serialize(w, fields) ==
    /\ pc[w] = "serialize"
    /\ \E e \in Entities(loc[w].todo, fields) :
         /\ db' = TorrentEntry_serialize(db, e, loc[w].changestamp)
         /\ loc' = [loc EXCEPT ![w].todo = @ \ {e.id}, ![w].te = e,
                                ![w].found = Found(db, e.id)]
         /\ Commit(w, loc[w].todo \ {e.id})
    /\ UNCHANGED <<remote, issued, reconciled, handed, client, bucketVars,
                   restVars>>

\* The second transaction of update_step: store scrape_last_results and
\* reconcile the page; update_step returns False and run calls it again.
Reconcile(w) ==
    /\ pc[w] = "reconcile"
    /\ LockFree(w)
    /\ LET d0 == [db EXCEPT !.global.scrape_last_results = loc[w].results]
       IN  db' = apply_contiguous_results_locked(
                     d0, loc[w].offset, loc[w].ids, loc[w].results)
    /\ issued' = IF loc[w].ids = {} THEN issued
                 ELSE Append(issued, get_changestamp_read(db))
    /\ loc' = [loc EXCEPT ![w] = NoLocals]
    /\ reconciled' = PassProgress(reconciled, {loc[w].offset})
    /\ pc' = [pc EXCEPT ![w] = "idle"]
    /\ UNCHANGED <<remote, lock, handed, client, bucketVars, restVars>>

\* ------------------------------------------------------------------------
\* apsw.BusyError: another connection held the write lock for the whole
\* busy timeout (setbusytimeout(120000))
\* ------------------------------------------------------------------------
\* "begin immediate" of getTorrents raises BusyError: the except clause logs
\* a warning and the while loop tries again.
UpsertBusy(w) ==
    /\ pc[w] = "begin"
    /\ ~LockFree(w)
    /\ busy' = busy \cup {<<"getTorrents", "retried">>}
    /\ UNCHANGED <<scraperVars, bucketVars, metafileVars, from_tobj, tipVars,
                   fileVars>>

\* The first "with self.api.begin()" of update_step raises BusyError:
\* nothing in update_step catches it, run logs "during update" and sleeps.
UpdateStepCursorBusy(w) ==
    /\ pc[w] = "idle"
    /\ ~LockFree(w)
    /\ pc' = [pc EXCEPT ![w] = "sleep"]
    /\ busy' = busy \cup {<<"update_step cursor", "raised">>}
    /\ UNCHANGED <<db, remote, loc, lock, issued, reconciled, handed, client,
                   bucketVars, metafileVars, from_tobj, tipVars, fileVars>>

\* The second "with self.api.begin()" of update_step raises BusyError: the
\* page's reconciliation is dropped, run logs "during update" and sleeps.
ReconcileBusy(w) ==
    /\ pc[w] = "reconcile"
    /\ ~LockFree(w)
    /\ pc' = [pc EXCEPT ![w] = "sleep"]
    /\ loc' = [loc EXCEPT ![w] = NoLocals]
    /\ reconciled' = PassProgress(reconciled, {})
    /\ busy' = busy \cup {<<"update_step reconcile", "raised">>}
    /\ UNCHANGED <<db, remote, lock, issued, handed, client, bucketVars,
                   metafileVars, from_tobj, tipVars, fileVars>>

\* The savepoint of getTorrentById ("with self.db: te.serialize()") raises
\* BusyError at its first write: getTorrentById has no except clause and the
\* caller gets the exception instead of the TorrentEntry.
GetTorrentByIdBusy ==
    /\ client = NoEntity
    /\ ~LockFree(None)
    /\ remote.ids # {}
    /\ busy' = busy \cup {<<"getTorrentById", "raised">>}
    /\ UNCHANGED <<scraperVars, bucketVars, metafileVars, from_tobj, tipVars,
                   fileVars>>

\* ------------------------------------------------------------------------
\* The API token bucket (tbucket.TimeSeriesTokenBucket) and call_api
\* ------------------------------------------------------------------------
\* The recorded consumptions that lie within [t - Period, t].
InWindow(queue, t) ==
    {i \in DOMAIN queue : t - Period <= queue[i] /\ queue[i] <= t}

\* try_consume(n, leave=leave) succeeds iff rate - current_count - n >= leave.
try_consume(queue, n, leave, t) ==
    Rate - Cardinality(InWindow(queue, t)) - n >= leave

\* The queue after a consumption at t: the timestamps that left the window
\* are dropped and t is recorded n times.
consumed(queue, n, t) ==
    SelectSeq(queue, LAMBDA x : t - Period <= x) \o [i \in 1..n |-> t]

\* A fill that spreads the timestamps after query_time.
fill_after(level, query_time, n) ==
    LET period == Period
        start == query_time
    IN  [i \in 1..n |-> start + (period * i) \div (n + 1)]

\* A fill that returns one timestamp too many, the last at query_time.
fill_one_more(level, query_time, n) ==
    LET period == Period
        start == query_time - period
    IN  [i \in 1..(n + 1) |-> start + (period * i) \div (n + 1)]

\* The fill of call_api: n timestamps spread evenly inside
\* (query_time - period, query_time).
fill(level, query_time, n) ==
    LET period == Period
        start == query_time - period
    IN  [i \in 1..n |-> start + (period * i) \div (n + 1)]

\* set(level, query_time, fill) rewrites the queue with the Rate - level
\* timestamps fill returns.
bucket_set(level, query_time) == fill(level, query_time, Rate - level)

\* The values of leave_tokens and target_tokens callers pass.
Leaves == {0, 1}

\* "leave" is the leave of the thread's latest try_consume.
NoCall == [pc |-> "idle", call_time |-> None, leave |-> None]

CODE_CALL_LIMIT_EXCEEDED == 0 - 32002

\* The error codes the remote answers with.
Codes == {CODE_CALL_LIMIT_EXCEEDED, 0 - 32001}

NoError == [exc |-> "none", code |-> None]

NoLedger == [tokens |-> 0, rpcs |-> 0]

\* An update_step whose try_consume does not pass leave=target_tokens.
UpdateStepTryConsume_no_leave(c, target_tokens) ==
    /\ caller[c].pc = "idle"
    /\ try_consume(api_token_bucket, 1, 0, now)
    /\ api_token_bucket' = consumed(api_token_bucket, 1, now)
    /\ caller' = [caller EXCEPT ![c].pc = "reserved",
                                ![c].leave = target_tokens]
    /\ raised' = [raised EXCEPT ![c] = NoError]
    /\ ledger' = [ledger EXCEPT ![c].tokens = @ + 1]
    /\ UNCHANGED <<now, scraperVars, restVars, webVars>>

\* update_step reserves its token: try_consume(1, leave=target_tokens).
UpdateStepTryConsume(c, target_tokens) ==
    /\ caller[c].pc = "idle"
    /\ try_consume(api_token_bucket, 1, target_tokens, now)
    /\ api_token_bucket' = consumed(api_token_bucket, 1, now)
    /\ caller' = [caller EXCEPT ![c].pc = "reserved",
                                ![c].leave = target_tokens]
    /\ raised' = [raised EXCEPT ![c] = NoError]
    /\ ledger' = [ledger EXCEPT ![c].tokens = @ + 1]
    /\ UNCHANGED <<now, scraperVars, restVars, webVars>>

\* An update_step that advances the cursor before it asks for its token.
UpdateStepBackoff_cursor(c, target_tokens) ==
    /\ caller[c].pc = "idle"
    /\ pc[c] = "idle"
    /\ ~try_consume(api_token_bucket, 1, target_tokens, now)
    /\ caller' = [caller EXCEPT ![c].leave = target_tokens]
    /\ raised' = [raised EXCEPT ![c] = NoError]
    /\ pc' = [pc EXCEPT ![c] = "sleep"]
    /\ db' = [db EXCEPT !.global.scrape_next_offset =
                 next_offset(get_int_or_0(@), db.global.scrape_last_results)]
    /\ UNCHANGED <<api_token_bucket, now, ledger, remote, loc, lock, issued,
                   reconciled, handed, client, restVars, webVars>>

\* try_consume(1, leave=target_tokens) does not succeed: update_step returns
\* True and the run loop sleeps.
UpdateStepBackoff(c, target_tokens) ==
    /\ caller[c].pc = "idle"
    /\ pc[c] = "idle"
    /\ ~try_consume(api_token_bucket, 1, target_tokens, now)
    /\ caller' = [caller EXCEPT ![c].leave = target_tokens]
    /\ raised' = [raised EXCEPT ![c] = NoError]
    /\ pc' = [pc EXCEPT ![c] = "sleep"]
    /\ UNCHANGED <<api_token_bucket, now, ledger, db, remote, loc, lock,
                   issued, reconciled, handed, client, restVars, webVars>>

\* "begin immediate" of update_step's first transaction raises BusyError: the
\* token is spent, run logs "during update" and sleeps.
UpdateStepRaises(c) ==
    /\ caller[c].pc = "reserved"
    /\ pc[c] = "idle"
    /\ ~LockFree(c)
    /\ caller' = [caller EXCEPT ![c] = NoCall]
    /\ pc' = [pc EXCEPT ![c] = "sleep"]
    /\ UNCHANGED <<api_token_bucket, now, raised, ledger, db, remote, loc,
                   lock, issued, reconciled, handed, client, restVars,
                   webVars>>

\* call_api with consume_token true: consume(1, leave=leave_tokens) returns
\* once the token is there (try_consume succeeds, when not blocking), and
\* the request is sent.
CallApiConsume(c, leave_tokens) ==
    /\ caller[c].pc = "idle"
    /\ try_consume(api_token_bucket, 1, leave_tokens, now)
    /\ api_token_bucket' = consumed(api_token_bucket, 1, now)
    /\ caller' = [caller EXCEPT ![c] = [pc |-> "sent", call_time |-> now,
                                        leave |-> leave_tokens]]
    /\ raised' = [raised EXCEPT ![c] = NoError]
    /\ UNCHANGED <<now, ledger, scraperVars, restVars, webVars>>

\* A call that raises where call_api raises WouldBlock, but sends the
\* request first.
CallApiWouldBlock_sends(c, leave_tokens) ==
    /\ caller[c].pc = "idle"
    /\ ~try_consume(api_token_bucket, 1, leave_tokens, now)
    /\ caller' = [caller EXCEPT ![c] = [pc |-> "sent", call_time |-> now,
                                        leave |-> leave_tokens]]
    /\ raised' = [raised EXCEPT ![c] = [exc |-> "WouldBlock",
                                        code |-> None]]
    /\ UNCHANGED <<api_token_bucket, now, ledger, scraperVars, restVars, webVars>>

\* call_api with consume_token true and block_on_token false, when
\* try_consume(1, leave=leave_tokens) does not succeed: WouldBlock is raised
\* before call_time is taken.
CallApiWouldBlock(c, leave_tokens) ==
    /\ caller[c].pc = "idle"
    /\ ~try_consume(api_token_bucket, 1, leave_tokens, now)
    /\ caller' = [caller EXCEPT ![c].leave = leave_tokens]
    /\ raised' = [raised EXCEPT ![c] = [exc |-> "WouldBlock",
                                        code |-> None]]
    /\ UNCHANGED <<api_token_bucket, now, ledger, scraperVars, restVars, webVars>>

\* A getTorrents of update_step that leaves consume_token at its default.
CallApiNoConsume_consumes(c) ==
    /\ caller[c].pc = "reserved"
    /\ try_consume(api_token_bucket, 1, 0, now)
    /\ api_token_bucket' = consumed(api_token_bucket, 1, now)
    /\ caller' = [caller EXCEPT ![c].pc = "sent", ![c].call_time = now]
    /\ raised' = [raised EXCEPT ![c] = NoError]
    /\ ledger' = [ledger EXCEPT ![c].rpcs = @ + 1]
    /\ UNCHANGED <<now, scraperVars, restVars, webVars>>

\* call_api with consume_token false, as update_step's getTorrents calls it.
CallApiNoConsume(c) ==
    /\ caller[c].pc = "reserved"
    /\ caller' = [caller EXCEPT ![c].pc = "sent", ![c].call_time = now]
    /\ raised' = [raised EXCEPT ![c] = NoError]
    /\ ledger' = [ledger EXCEPT ![c].rpcs = @ + 1]
    /\ UNCHANGED <<api_token_bucket, now, scraperVars, restVars, webVars>>

\* The response carries a result.
CallApiResult(c) ==
    /\ caller[c].pc = "sent"
    /\ caller' = [caller EXCEPT ![c] = NoCall]
    /\ UNCHANGED <<api_token_bucket, now, raised, ledger, scraperVars,
                   restVars, webVars>>

\* raise_for_status() raises: the response is not 2xx, HTTPError is raised.
CallApiHTTPError(c) ==
    /\ caller[c].pc = "sent"
    /\ caller' = [caller EXCEPT ![c] = NoCall]
    /\ raised' = [raised EXCEPT ![c] = [exc |-> "HTTPError", code |-> None]]
    /\ UNCHANGED <<api_token_bucket, now, ledger, scraperVars, restVars, webVars>>

\* A call_api that rewrites the bucket on any error of the API.
CallApiAPIError_rewrites(c, code) ==
    /\ caller[c].pc = "sent"
    /\ code # CODE_CALL_LIMIT_EXCEEDED
    /\ api_token_bucket' = bucket_set(0, caller[c].call_time)
    /\ caller' = [caller EXCEPT ![c] = NoCall]
    /\ raised' = [raised EXCEPT ![c] = [exc |-> "APIError", code |-> code]]
    /\ UNCHANGED <<now, ledger, scraperVars, restVars, webVars>>

\* The response carries an error with a code other than
\* CODE_CALL_LIMIT_EXCEEDED: APIError(message, code) is raised.
CallApiAPIError(c, code) ==
    /\ caller[c].pc = "sent"
    /\ code # CODE_CALL_LIMIT_EXCEEDED
    /\ caller' = [caller EXCEPT ![c] = NoCall]
    /\ raised' = [raised EXCEPT ![c] = [exc |-> "APIError", code |-> code]]
    /\ UNCHANGED <<api_token_bucket, now, ledger, scraperVars, restVars, webVars>>

\* The response carries CODE_CALL_LIMIT_EXCEEDED: the bucket is set to level
\* 0 as of call_time and APIError is raised.
CallApiCallLimitExceeded(c) ==
    /\ caller[c].pc = "sent"
    /\ api_token_bucket' = bucket_set(0, caller[c].call_time)
    /\ caller' = [caller EXCEPT ![c] = NoCall]
    /\ raised' = [raised EXCEPT ![c] = [exc |-> "APIError",
                                        code |-> CODE_CALL_LIMIT_EXCEEDED]]
    /\ UNCHANGED <<now, ledger, scraperVars, restVars, webVars>>

\* The generic bucket (tbucket.TokenBucket) of _call_url: the tokens it
\* holds at time t, by the refill rule.
peek(bucket, t) ==
    Min({TokenRate,
         bucket.level + ((t - bucket.last) * TokenRate) \div TokenPeriod})

\* A full bucket, as a new user database holds it.
NoProbe == [api |-> TRUE, web |-> TRUE, at |-> None]

\* _call_url: consume(1) returns once a token is there, and the request is
\* sent.
CallUrl ==
    /\ peek(token_bucket, now) - 1 >= 0
    /\ token_bucket' = [level |-> peek(token_bucket, now) - 1, last |-> now]
    /\ UNCHANGED <<api_token_bucket, now, caller, raised, ledger, probe,
                   scraperVars, restVars>>

\* try_consume(0) on both buckets: it never changes state, and returns
\* whether the bucket would retain the default leave of 0 tokens.
TryConsumeZero ==
    /\ probe' = [api |-> try_consume(api_token_bucket, 0, 0, now),
                 web |-> peek(token_bucket, now) - 0 >= 0,
                 at |-> now]
    /\ UNCHANGED <<api_token_bucket, now, caller, raised, ledger,
                   token_bucket, scraperVars, restVars>>

\* Time passes.
Tick ==
    /\ now < MaxTime
    /\ now' = now + 1
    /\ UNCHANGED <<api_token_bucket, caller, raised, ledger, scraperVars,
                   restVars, webVars>>

\* ------------------------------------------------------------------------
\* TorrentEntry.raw_torrent: the metafile cache
\* ------------------------------------------------------------------------
\* The TorrentEntry objects alive in the process.
Objects == {1, 2}

\* An object slot not yet constructed.  "lock" is the thread that holds the
\* object's _lock, "raw_torrent" tells whether _raw_torrent is set.
NoObject == [id |-> None, lock |-> None, raw_torrent |-> 0, te |-> NoEntity]

NoGetter == [pc |-> "idle", obj |-> None]

\* The entity TorrentEntry._from_db builds from the rows of an id.
RowEntity(d, id) ==
    LET row == d.torrent_entry[id]
        group == d.torrent_entry_group[row.group_id]
    IN  [id |-> id, group_id |-> row.group_id, series_id |-> group.series_id,
         important |-> row.important, counters |-> row.counters,
         series_params |-> d.series[group.series_id].params]

\* getTorrentByIdCached: _from_db reads the committed rows and always makes
\* a new object, with a lock of its own.
EntryFromDb(o) ==
    /\ entry[o].id = None
    /\ lock = None
    /\ \E id \in DOMAIN db.torrent_entry :
         entry' = [entry EXCEPT ![o] =
                      [NoObject EXCEPT !.id = id, !.te = RowEntity(db, id)]]
    /\ UNCHANGED <<scraperVars, bucketVars, disk, getter, downloads, busy,
                   from_tobj, tipVars, fileVars>>

\* raw_torrent enters "with self._lock" on the object the thread was given.
RawTorrentLock(t, o) ==
    /\ getter[t].pc = "idle"
    /\ entry[o].id # None
    /\ entry[o].lock = None
    /\ entry' = [entry EXCEPT ![o].lock = t]
    /\ getter' = [getter EXCEPT ![t] = [pc |-> "locked", obj |-> o]]
    /\ UNCHANGED <<scraperVars, bucketVars, disk, downloads, busy, from_tobj,
                   tipVars, fileVars>>

\* _raw_torrent is set, or the metafile is on disk and is read: return.
RawTorrentCached(t) ==
    /\ getter[t].pc = "locked"
    /\ LET o == getter[t].obj
       IN  /\ entry[o].raw_torrent = 1 \/ entry[o].id \in disk
           /\ entry' = [entry EXCEPT ![o].raw_torrent = 1, ![o].lock = None]
    /\ getter' = [getter EXCEPT ![t] = NoGetter]
    /\ UNCHANGED <<scraperVars, bucketVars, disk, downloads, busy, from_tobj,
                   tipVars, fileVars>>

\* Neither: the metafile is requested over HTTP.
RawTorrentFetch(t) ==
    /\ getter[t].pc = "locked"
    /\ LET id == entry[getter[t].obj].id
       IN  /\ entry[getter[t].obj].raw_torrent = 0
           /\ id \notin disk
           /\ downloads' = (id :> 1 + (IF id \in DOMAIN downloads
                                         THEN downloads[id] ELSE 0))
                               @@ downloads
    /\ getter' = [getter EXCEPT ![t].pc = "fetch"]
    /\ UNCHANGED <<scraperVars, bucketVars, disk, entry, busy, from_tobj,
                   tipVars, fileVars>>

\* _got_raw_torrent, up to the write of the file, which is made when
\* store_raw_torrent is on.
GotRawTorrent(t) ==
    /\ getter[t].pc = "fetch"
    /\ entry' = [entry EXCEPT ![getter[t].obj].raw_torrent = 1]
    /\ disk' = IF store_raw_torrent THEN disk \cup {entry[getter[t].obj].id}
               ELSE disk
    /\ getter' = [getter EXCEPT ![t].pc = "written"]
    /\ UNCHANGED <<scraperVars, bucketVars, downloads, busy, from_tobj,
                   tipVars, fileVars>>

\* _got_raw_torrent, the rest: "with self.api.begin(): self.serialize()"
\* writes the object's fields back under a changestamp of its own, and
\* raw_torrent leaves the object's lock.
RawTorrentSerialize(t, cap) ==
    /\ getter[t].pc = "written"
    /\ LockFree(None)
    /\ db.global.changestamp + Reserved(Workers) < cap
    /\ LET o == getter[t].obj
           changestamp == get_changestamp_read(db)
       IN  /\ db' = TorrentEntry_serialize(
                        get_changestamp_write(db, changestamp),
                        entry[o].te, changestamp)
           /\ issued' = Append(issued, changestamp)
           /\ entry' = [entry EXCEPT ![o].lock = None]
    /\ getter' = [getter EXCEPT ![t] = NoGetter]
    /\ UNCHANGED <<remote, pc, loc, lock, reconciled, handed, client,
                   bucketVars, disk, downloads, busy, from_tobj, tipVars,
                   fileVars>>

\* serialize evaluates raw_torrent_cached (os.path.exists) twice: first to
\* decide whether it has FileInfo records to insert, later for the column
\* of the row.  Nothing keeps thread t from writing the file in between:
\* the API user's upsert then finds no file at the first test and the file
\* at the second.
GetTorrentByIdDuringWrite(fields, cap, t) ==
    /\ getter[t].pc = "fetch"
    /\ client = NoEntity
    /\ LockFree(None)
    /\ db.global.changestamp + Reserved(Workers) < cap
    /\ LET id == entry[getter[t].obj].id
           changestamp == get_changestamp_read(db)
       IN  /\ id \in remote.ids
           /\ \E e \in Entities({id}, fields) :
                LET d == TorrentEntry_serialize(
                             get_changestamp_write(db, changestamp),
                             e, changestamp)
                IN  db' = [d EXCEPT !.torrent_entry[id] =
                              [@ EXCEPT !.raw_torrent_cached = 1,
                                        !.updated_at = changestamp]]
           /\ issued' = Append(issued, changestamp)
           /\ disk' = disk \cup {id}
    /\ entry' = [entry EXCEPT ![getter[t].obj].raw_torrent = 1]
    /\ getter' = [getter EXCEPT ![t].pc = "written"]
    /\ UNCHANGED <<remote, pc, loc, lock, reconciled, handed, client,
                   bucketVars, downloads, busy, from_tobj, tipVars, fileVars>>

\* ------------------------------------------------------------------------
\* FileInfo._from_tobj: the FileInfo records of a metafile
\* ------------------------------------------------------------------------
\* The deserialized metafiles: info has a "files" list of lengths, or a
\* "length" of its own.
Tobjs ==
    [has_files : {TRUE}, length : {None},
     files : UNION {[1..n -> 0..MaxLength] : n \in 0..MaxFiles}]
        \cup [has_files : {FALSE}, length : 0..MaxLength, files : {<<>>}]

NoTobj == [has_files |-> FALSE, length |-> None, files |-> <<>>]

\* The generator before it is called.
NoFromTobj == [pc |-> "idle", tobj |-> NoTobj, offset |-> 0, values |-> <<>>]

\* A stop that forgets the files before.
FileInfo_stop_length(offset, length) == length

\* stop = offset + length
FileInfo_stop(offset, length) == offset + length

\* list(FileInfo._from_tobj(tobj)) is called on a metafile.
FromTobjCall ==
    /\ from_tobj.pc = "idle"
    /\ \E tobj \in Tobjs :
         from_tobj' = [NoFromTobj EXCEPT !.pc = "run", !.tobj = tobj]
    /\ UNCHANGED <<scraperVars, bucketVars, metafileVars, busy, tipVars,
                   fileVars>>

\* One turn of "for idx, fi in enumerate(ti['files'])": a record is yielded
\* and offset moves to its stop.
FromTobjYieldFile ==
    /\ from_tobj.pc = "run"
    /\ from_tobj.tobj.has_files
    /\ Len(from_tobj.values) < Len(from_tobj.tobj.files)
    /\ LET idx == Len(from_tobj.values)
           length == from_tobj.tobj.files[idx + 1]
           start == from_tobj.offset
           stop == FileInfo_stop(from_tobj.offset, length)
       IN  from_tobj' = [from_tobj EXCEPT
                            !.offset = stop,
                            !.values = Append(@, [index |-> idx,
                                                  start |-> start,
                                                  stop |-> stop])]
    /\ UNCHANGED <<scraperVars, bucketVars, metafileVars, busy, tipVars,
                   fileVars>>

\* The else branch: one record for the whole metafile.
FromTobjYieldSingle ==
    /\ from_tobj.pc = "run"
    /\ ~from_tobj.tobj.has_files
    /\ from_tobj' = [from_tobj EXCEPT
                        !.pc = "done",
                        !.values = <<[index |-> 0, start |-> 0,
                                      stop |-> from_tobj.tobj.length]>>]
    /\ UNCHANGED <<scraperVars, bucketVars, metafileVars, busy, tipVars,
                   fileVars>>

\* The loop is over: the generator is exhausted.
FromTobjReturn ==
    /\ from_tobj.pc = "run"
    /\ from_tobj.tobj.has_files
    /\ Len(from_tobj.values) = Len(from_tobj.tobj.files)
    /\ from_tobj' = [from_tobj EXCEPT !.pc = "done"]
    /\ UNCHANGED <<scraperVars, bucketVars, metafileVars, busy, tipVars,
                   fileVars>>

\* ------------------------------------------------------------------------
\* TorrentFileScraper: the file-layout scraper
\* ------------------------------------------------------------------------
\* SQLite's NULL as the bound parameter self.ts: "select max(updated_at)"
\* over an empty table.
NULL == 0 - 2

\* The scraper before its first step.  "queue" is the PriorityQueue as the
\* bag of the ids put into it, "reset" tells whether the latest step began
\* with a reset, "failed" why it raised; "tried" is history: the ids whose
\* metafile has been requested.
NoFiler ==
    [pc |-> "idle", ts |-> None, queue |-> EmptyBag,
     last_reset_time |-> None, reset |-> FALSE, id |-> None,
     te |-> NoEntity, failed |-> "none", tried |-> {}]

\* A get_unfilled_ids without "and torrent_entry.deleted = 0".
get_unfilled_ids_deleted(d, ts) ==
    IF ts = NULL THEN {}
    ELSE {id \in DOMAIN d.torrent_entry :
             /\ id \notin DOMAIN d.file_info
             /\ d.torrent_entry[id].updated_at > ts}

\* get_unfilled_ids: the rows without file_info rows that are not deleted
\* and whose updated_at is above ts; no row compares above NULL.
get_unfilled_ids(d, ts) ==
    IF ts = NULL THEN {}
    ELSE {id \in DOMAIN d.torrent_entry :
             /\ id \notin DOMAIN d.file_info
             /\ d.torrent_entry[id].deleted = 0
             /\ d.torrent_entry[id].updated_at > ts}

\* update_ts: "select max(updated_at) from torrent_entry".
update_ts(d) ==
    IF DOMAIN d.torrent_entry = {} THEN NULL
    ELSE Max({d.torrent_entry[id].updated_at : id \in DOMAIN d.torrent_entry})

\* step, up to the choice of the id: after reset_time (always at the first
\* step; wall time between two steps is not bounded, so any later step may
\* find it elapsed) ts becomes -1 and the queue is emptied; one savepoint
\* queues the unfilled ids and reads the new ts; get_nowait takes the entry
\* with the least -id.  With an empty queue step returns None and run
\* sleeps a second.
FilerScan(reset) ==
    /\ filer.pc = "idle"
    /\ lock = None
    /\ filer.last_reset_time = None => reset
    /\ LET ts == IF reset THEN 0 - 1 ELSE filer.ts
           queue == (IF reset THEN EmptyBag ELSE filer.queue)
                        (+) SetToBag(get_unfilled_ids(db, ts))
           id == IF queue = EmptyBag THEN None ELSE Max(BagToSet(queue))
       IN  filer' = [filer EXCEPT
                        !.ts = update_ts(db),
                        !.last_reset_time = IF reset THEN now ELSE @,
                        !.reset = reset,
                        !.queue = IF id = None THEN queue
                                  ELSE queue (-) SetToBag({id}),
                        !.id = id,
                        !.te = NoEntity,
                        !.failed = "none",
                        !.pc = IF id = None THEN "idle" ELSE "get"]
    /\ UNCHANGED <<scraperVars, bucketVars, metafileVars, busy, from_tobj,
                   tipVars, store_raw_torrent>>

\* te = self.api.getTorrentByIdCached(id): a new TorrentEntry built from
\* the committed rows.  te.raw_torrent returns at once when the metafile
\* is on disk, and step returns the id.
FilerGetCached ==
    /\ filer.pc = "get"
    /\ lock = None
    /\ filer' = [filer EXCEPT
                    !.te = RowEntity(db, filer.id),
                    !.pc = IF filer.id \in disk THEN "idle" ELSE "fetch"]
    /\ UNCHANGED <<scraperVars, bucketVars, metafileVars, busy, from_tobj,
                   tipVars, store_raw_torrent>>

\* response = self.api._get_url(self.link): a token of the generic bucket
\* is consumed and the request sent; the response is a metafile that
\* better_bencode loads.
FilerFetch ==
    /\ filer.pc = "fetch"
    /\ peek(token_bucket, now) - 1 >= 0
    /\ token_bucket' = [level |-> peek(token_bucket, now) - 1, last |-> now]
    /\ filer' = [filer EXCEPT !.pc = "got", !.tried = @ \cup {filer.id}]
    /\ UNCHANGED <<scraperVars, api_token_bucket, now, caller, raised, ledger,
                   probe, metafileVars, busy, from_tobj, tipVars,
                   store_raw_torrent>>

\* A raw_torrent that hands the body to _got_raw_torrent before it checks
\* it: the file is written although the step raises.
FilerFetchFails_writes(exc) ==
    /\ filer.pc = "fetch"
    /\ peek(token_bucket, now) - 1 >= 0
    /\ token_bucket' = [level |-> peek(token_bucket, now) - 1, last |-> now]
    /\ disk' = IF store_raw_torrent THEN disk \cup {filer.id} ELSE disk
    /\ filer' = [filer EXCEPT !.pc = "sleep", !.failed = exc,
                               !.tried = @ \cup {filer.id}]
    /\ UNCHANGED <<scraperVars, api_token_bucket, now, caller, raised, ledger,
                   probe, entry, getter, downloads, busy, from_tobj, tipVars,
                   store_raw_torrent>>

\* The same request answered with an HTTP error (_get_url raises HTTPError)
\* or with a body that is not bencode (raw_torrent raises APIError): step
\* raises, run logs the exception and sleeps 60 seconds.
FilerFetchFails(exc) ==
    /\ filer.pc = "fetch"
    /\ peek(token_bucket, now) - 1 >= 0
    /\ token_bucket' = [level |-> peek(token_bucket, now) - 1, last |-> now]
    /\ filer' = [filer EXCEPT !.pc = "sleep", !.failed = exc,
                               !.tried = @ \cup {filer.id}]
    /\ UNCHANGED <<scraperVars, api_token_bucket, now, caller, raised, ledger,
                   probe, metafileVars, busy, from_tobj, tipVars,
                   store_raw_torrent>>

\* _got_raw_torrent, up to the write of the file, which is made when
\* store_raw_torrent is on.
FilerGotRawTorrent ==
    /\ filer.pc = "got"
    /\ disk' = IF store_raw_torrent THEN disk \cup {filer.id} ELSE disk
    /\ filer' = [filer EXCEPT !.pc = "written"]
    /\ UNCHANGED <<scraperVars, bucketVars, entry, getter, downloads, busy,
                   from_tobj, tipVars, store_raw_torrent>>

\* _got_raw_torrent, the rest: "with self.api.begin(): self.serialize()",
\* tried again after BusyError until the write lock is free; step returns
\* the id.
FilerSerialize(cap) ==
    /\ filer.pc = "written"
    /\ lock = None
    /\ db.global.changestamp + Reserved(Workers) < cap
    /\ LET changestamp == get_changestamp_read(db)
       IN  /\ db' = TorrentEntry_serialize(
                        get_changestamp_write(db, changestamp),
                        filer.te, changestamp)
           /\ issued' = Append(issued, changestamp)
    /\ filer' = [filer EXCEPT !.pc = "idle"]
    /\ UNCHANGED <<remote, pc, loc, lock, reconciled, handed, client,
                   bucketVars, metafileVars, busy, from_tobj, tipVars,
                   store_raw_torrent>>

\* time.sleep(60) of TorrentFileScraper.run is over.
FilerWake ==
    /\ filer.pc = "sleep"
    /\ filer' = [filer EXCEPT !.pc = "idle"]
    /\ UNCHANGED <<scraperVars, bucketVars, metafileVars, busy, from_tobj,
                   tipVars, store_raw_torrent>>

\* TorrentFileScraper.run: step after step.
FileScraper(cap) ==
    \/ \E reset \in BOOLEAN : FilerScan(reset)
    \/ FilerGetCached
    \/ FilerFetch
    \/ \E exc \in {"HTTPError", "APIError"} : FilerFetchFails(exc)
    \/ FilerGotRawTorrent
    \/ FilerSerialize(cap)
    \/ FilerWake

\* ------------------------------------------------------------------------
\* MetadataTipScraper: scrape_step and update_scrape_results_locked
\* ------------------------------------------------------------------------
NoTip == [last |-> None, offset |-> None, oldest |-> None, newest |-> None]

NoTipper ==
    [pc |-> "idle", offset |-> None, last_scraped |-> None, db_ids |-> {},
     ids |-> {}, results |-> None, changestamp |-> None, todo |-> {}]

\* The connection of the tip scraper's thread, as the holder of the write
\* lock.
TipThread == 0

\* The n largest members of a set of ids: the head of a list sorted by
\* descending id.
Top(S, n) == {i \in S : Cardinality({j \in S : j > i}) < n}

\* The feed "torrents_all" lists the newest FeedSize torrents, newest first.
get_feed_ids == Top(remote.ids, FeedSize)

\* "select id from torrent_entry where not deleted order by id desc limit"
db_ids_head(d) ==
    Top({t \in DOMAIN d.torrent_entry : d.torrent_entry[t].deleted = 0},
        DbIdsLimit)

\* A caught-up test that stops only below tip_last_scraped.
caught_up_below(ids, last_scraped) ==
    last_scraped # None /\ Min(ids) < last_scraped

\* "last_scraped is not None and ids[-1] <= last_scraped"
caught_up(ids, last_scraped) ==
    last_scraped # None /\ Min(ids) <= last_scraped

\* update_scrape_results_locked raises IndexError on ids[0] or ids[-1] of
\* an empty page.
update_scrape_results_raises(t, offset, ids, results) ==
    /\ ids = {}
    /\ \/ t.newest = None
       \/ t.oldest = None /\ ~is_end(offset, ids, results)

\* An update_scrape_results_locked that backs off to half the offset.
update_scrape_results_halves(t, offset, ids, results) ==
    LET newest == IF t.newest = None \/ (ids # {} /\ Max(ids) >= t.newest)
                    THEN Max(ids) ELSE t.newest
        good == t.oldest = None \/ (ids # {} /\ Max(ids) >= t.oldest)
        done == /\ good
                /\ \/ is_end(offset, ids, results)
                   \/ caught_up(ids, t.last)
        back == offset \div 2
    IN  IF done
          THEN [done |-> TRUE, tip |-> [NoTip EXCEPT !.last = newest]]
          ELSE [done |-> FALSE,
                tip |-> [last |-> t.last,
                         offset |-> IF good THEN offset + Cardinality(ids) - 1
                                    ELSE back,
                         oldest |-> IF good
                                      THEN IF t.oldest = None
                                                \/ Min(ids) < t.oldest
                                             THEN Min(ids) ELSE t.oldest
                                    ELSE IF back <= 0 THEN None
                                    ELSE t.oldest,
                         newest |-> newest]]

\* An update_scrape_results_locked that takes the top of every page as
\* newest.
update_scrape_results_page_top(t, offset, ids, results) ==
    LET good == t.oldest = None \/ (ids # {} /\ Max(ids) >= t.oldest)
        done == /\ good
                /\ \/ is_end(offset, ids, results)
                   \/ caught_up(ids, t.last)
        back == offset - (Cardinality(ids) \div 2)
        top == IF ids = {} THEN t.newest ELSE Max(ids)
    IN  IF done
          THEN [done |-> TRUE, tip |-> [NoTip EXCEPT !.last = top]]
          ELSE [done |-> FALSE,
                tip |-> [last |-> t.last,
                         offset |-> IF good THEN offset + Cardinality(ids) - 1
                                    ELSE IF back <= 0 THEN 0 ELSE back,
                         oldest |-> IF good
                                      THEN IF t.oldest = None
                                                \/ Min(ids) < t.oldest
                                             THEN Min(ids) ELSE t.oldest
                                    ELSE IF back <= 0 THEN None
                                    ELSE t.oldest,
                         newest |-> top]]

\* The tip_* keys update_scrape_results_locked stores, and whether the
\* pass is done.
update_scrape_results(t, offset, ids, results) ==
    LET newest == IF t.newest = None \/ (ids # {} /\ Max(ids) >= t.newest)
                    THEN Max(ids) ELSE t.newest
        good == t.oldest = None \/ (ids # {} /\ Max(ids) >= t.oldest)
        done == /\ good
                /\ \/ is_end(offset, ids, results)
                   \/ caught_up(ids, t.last)
        oldest == IF good
                    THEN IF t.oldest = None \/ Min(ids) < t.oldest
                           THEN Min(ids) ELSE t.oldest
                  ELSE IF offset - (Cardinality(ids) \div 2) <= 0
                    THEN None ELSE t.oldest
        next == IF good THEN offset + Cardinality(ids) - 1
                ELSE IF offset - (Cardinality(ids) \div 2) <= 0 THEN 0
                ELSE offset - (Cardinality(ids) \div 2)
    IN  IF done
          THEN [done |-> TRUE, tip |-> [NoTip EXCEPT !.last = newest]]
          ELSE [done |-> FALSE,
                tip |-> [last |-> t.last, offset |-> next,
                         oldest |-> oldest, newest |-> newest]]

\* scrape_step's first block: one savepoint reads the session offset,
\* tip_last_scraped and, without a session, the head of the cache.
TipRead ==
    /\ tipper.pc = "idle"
    /\ tipper' = [NoTipper EXCEPT
                     !.pc = IF tip.offset = None THEN "feed" ELSE "rpc",
                     !.offset = tip.offset,
                     !.last_scraped = tip.last,
                     !.db_ids = IF tip.offset = None
                                  THEN db_ids_head(db) ELSE {}]
    /\ UNCHANGED <<scraperVars, bucketVars, metafileVars, busy, from_tobj,
                   fileVars, tip, rpcs>>

\* Without a session the feed decides: scrape_step returns True when the
\* feed equals the head of the cache and starts with tip_last_scraped, and
\* starts a pass at offset 0 otherwise.  An empty feed raises IndexError
\* on feed_ids[0]; run logs it and sleeps like after True.
TipFeed ==
    /\ tipper.pc = "feed"
    /\ LET feed_ids == get_feed_ids
           db_ids == Top(tipper.db_ids, Cardinality(feed_ids))
       IN  IF feed_ids = db_ids
                /\ (feed_ids = {} \/ Max(feed_ids) = tipper.last_scraped)
             THEN tipper' = [NoTipper EXCEPT !.pc = "sleep"]
             ELSE tipper' = [tipper EXCEPT !.pc = "rpc", !.offset = 0]
    /\ UNCHANGED <<scraperVars, bucketVars, metafileVars, busy, from_tobj,
                   fileVars, tip, rpcs>>

\* sr = self.api.getTorrents(results=2**31, offset=offset): the page is
\* fetched, getTorrents begins its transaction and draws its changestamp.
TipGetTorrents ==
    /\ tipper.pc = "rpc"
    /\ LockFree(TipThread)
    /\ Len(rpcs) < TipMaxRpcs
    /\ LET ids == Page(remote.ids, tipper.offset)
           changestamp == get_changestamp_read(db)
       IN  /\ db' = get_changestamp_write(db, changestamp)
           /\ issued' = Append(issued, changestamp)
           /\ rpcs' = Append(rpcs, [offset |-> tipper.offset,
                                    head |-> remote.born,
                                    top |-> IF ids = {} THEN None
                                            ELSE Max(ids),
                                    first |-> tip.offset = None])
           /\ tipper' = [tipper EXCEPT
                            !.pc = IF ids = {} THEN "reconcile"
                                   ELSE "serialize",
                            !.ids = ids, !.todo = ids,
                            !.changestamp = changestamp,
                            !.results = Cardinality(remote.ids)]
           /\ lock' = IF ids = {} THEN None ELSE TipThread
    /\ UNCHANGED <<remote, pc, loc, reconciled, handed, client, bucketVars,
                   metafileVars, busy, from_tobj, fileVars, tip>>

\* One turn of "for te in tes: te.serialize(changestamp=changestamp)"; the
\* transaction commits after the last.
TipSerialize(fields) ==
    /\ tipper.pc = "serialize"
    /\ \E e \in Entities(tipper.todo, fields) :
         /\ db' = TorrentEntry_serialize(db, e, tipper.changestamp)
         /\ tipper' = [tipper EXCEPT
                          !.todo = @ \ {e.id},
                          !.pc = IF tipper.todo = {e.id} THEN "reconcile"
                                 ELSE "serialize"]
         /\ lock' = IF tipper.todo = {e.id} THEN None ELSE lock
    /\ UNCHANGED <<remote, pc, loc, issued, reconciled, handed, client,
                   bucketVars, metafileVars, busy, from_tobj, fileVars, tip,
                   rpcs>>

\* "with self.api.begin(): return self.update_scrape_results_locked(...)":
\* the page is reconciled and the tip_* keys stored in one transaction; an
\* IndexError rolls it back.  run calls scrape_step again at once unless
\* the pass is done or the step raised.
TipReconcile ==
    /\ tipper.pc = "reconcile"
    /\ LockFree(TipThread)
    /\ IF update_scrape_results_raises(tip, tipper.offset, tipper.ids,
                                       tipper.results)
         THEN /\ tipper' = [NoTipper EXCEPT !.pc = "sleep"]
              /\ UNCHANGED <<db, issued, tip>>
         ELSE LET r == update_scrape_results(tip, tipper.offset, tipper.ids,
                                             tipper.results)
              IN  /\ db' = apply_contiguous_results_locked(
                               db, tipper.offset, tipper.ids, tipper.results)
                  /\ issued' = IF tipper.ids = {} THEN issued
                               ELSE Append(issued, get_changestamp_read(db))
                  /\ tip' = r.tip
                  /\ tipper' = [NoTipper EXCEPT
                                   !.pc = IF r.done THEN "sleep" ELSE "idle"]
    /\ UNCHANGED <<remote, pc, loc, lock, reconciled, handed, client,
                   bucketVars, metafileVars, busy, from_tobj, fileVars, rpcs>>

\* time.sleep(60) of MetadataTipScraper.run is over: the next poll.
TipWake ==
    /\ tipper.pc = "sleep"
    /\ tipper' = [tipper EXCEPT !.pc = "idle"]
    /\ UNCHANGED <<scraperVars, bucketVars, metafileVars, busy, from_tobj,
                   fileVars, tip, rpcs>>

\* The state of the added variables but the tip_* keys in a new process.
InitIdle ==
    /\ disk = {}
    /\ entry = [o \in Objects |-> NoObject]
    /\ getter = [t \in Workers |-> NoGetter]
    /\ downloads = <<>>
    /\ busy = {}
    /\ raised = [c \in Workers |-> NoError]
    /\ token_bucket = [level |-> TokenRate, last |-> 0]
    /\ probe = NoProbe
    /\ ledger = [c \in Workers |-> NoLedger]
    /\ from_tobj = NoFromTobj
    /\ tipper = NoTipper
    /\ rpcs = <<>>
    /\ filer = NoFiler

\* The state of the added variables in a new process whose API writes the
\* metafiles it fetches to disk.
InitRest == InitIdle /\ tip = NoTip /\ store_raw_torrent = TRUE

\* ------------------------------------------------------------------------
\* Specifications
\* ------------------------------------------------------------------------
EmptyDb ==
    [series |-> <<>>, torrent_entry_group |-> <<>>, torrent_entry |-> <<>>,
     file_info |-> <<>>,
     global |-> [changestamp |-> 0, scrape_next_offset |-> None,
                 scrape_last_results |-> None]]

\* The catalogs the remote may hold when the cache is created.
Catalogs(maxid) ==
    {r \in [ids : SUBSET (1..maxid), born : 0..maxid] :
        \A i \in r.ids : i <= r.born}

\* A freshly created cache, no worker started, no call in progress.
InitFresh(maxid) ==
    /\ db = EmptyDb
    /\ remote \in Catalogs(maxid)
    /\ pc = [w \in Workers |-> "idle"]
    /\ loc = [w \in Workers |-> NoLocals]
    /\ lock = None
    /\ issued = <<>>
    /\ reconciled = {}
    /\ handed = NoPass
    /\ client = NoEntity
    /\ api_token_bucket = <<>>
    /\ now = 0
    /\ caller = [c \in Workers |-> NoCall]
    /\ InitRest

\* An update_step that obtains its token and whose RPC is answered.
UpdateStep(w, cap, fields) ==
    \/ UpdateStepCursor(w, cap)
    \/ Rpc(w)
    \/ UpsertBegin(w)
    \/ StampRead(w)
    \/ StampWrite(w)
    \/ Serialize(w, fields)
    \/ Reconcile(w)

\* An update_step that ends early, and the sleep of the run loop.
UpdateStepEndsEarly(w) ==
    \/ UpdateStepNoToken(w)
    \/ Wake(w)
    \/ RpcFail(w)

\* The cache store under one backfill worker and one API user; the remote's
\* entities may change group and series between two fetches.
StoreFields ==
    [group_id |-> GroupIds, series_id |-> SeriesIds, important |-> {0},
     counters |-> {0}, series_params |-> {0}]

InitStore == InitFresh(StoreMaxId)

NextStore ==
    \/ UpdateStep(1, StoreMaxStamp, StoreFields)
    \/ GetTorrentById(StoreFields, StoreMaxStamp, FALSE)
    \/ RemoteAdd(StoreMaxId)
    \/ RemoteDelete

SpecStore == InitStore /\ [][NextStore]_vars

\* The upsert contract: one backfill worker and one API user; the columns
\* of the remote's entities and of their series, and the group they belong
\* to, may change between two fetches.
UpsertFields ==
    [group_id |-> GroupIds, series_id |-> {1}, important |-> Values,
     counters |-> Values, series_params |-> Values]

InitUpsert == InitFresh(UpsertMaxId)

NextUpsert ==
    \/ UpdateStep(1, UpsertMaxStamp, UpsertFields)
    \/ GetTorrentById(UpsertFields, UpsertMaxStamp, TRUE)
    \/ ClientReturn
    \/ RemoteAdd(UpsertMaxId)
    \/ RemoteDelete

SpecUpsert == InitUpsert /\ [][NextUpsert]_vars

\* The backfill cursor: one worker whose steps may end early and one API
\* user, over a remote whose entities keep their field values.
PlainFields ==
    [group_id |-> {1}, series_id |-> {1}, important |-> {0},
     counters |-> {0}, series_params |-> {0}]

InitBackfill == InitFresh(MaxId)

NextBackfill ==
    \/ UpdateStep(1, MaxStamp, PlainFields)
    \/ UpdateStepEndsEarly(1)
    \/ GetTorrentById(PlainFields, MaxStamp, FALSE)
    \/ RemoteAdd(MaxId)
    \/ RemoteDelete

SpecBackfill == InitBackfill /\ [][NextBackfill]_vars

\* Two worker threads and one API user on the same database files.
InitConcurrent == InitFresh(ConcMaxId)

NextConcurrent ==
    \/ \E w \in Workers : UpdateStep(w, ConcMaxStamp, PlainFields)
    \/ GetTorrentById(PlainFields, ConcMaxStamp, FALSE)
    \/ RemoteAdd(ConcMaxId)
    \/ RemoteDelete

SpecConcurrent == InitConcurrent /\ [][NextConcurrent]_vars

\* Two worker threads sharing the backfill cursor while the remote catalog
\* gains and loses torrents.
InitOverlap == InitFresh(OverlapMaxId)

NextOverlap ==
    \/ \E w \in Workers : UpdateStep(w, OverlapMaxStamp, PlainFields)
    \/ RemoteAdd(OverlapMaxId)
    \/ RemoteDelete

SpecOverlap == InitOverlap /\ [][NextOverlap]_vars

\* Two worker threads and one API user whose transactions find the write
\* lock held for longer than the busy timeout.
InitBusy == InitFresh(BusyMaxId)

BusyError(w) ==
    \/ UpsertBusy(w)
    \/ UpdateStepCursorBusy(w)
    \/ ReconcileBusy(w)
    \/ Wake(w)

NextBusy ==
    \/ \E w \in Workers : UpdateStep(w, BusyMaxStamp, PlainFields)
    \/ \E w \in Workers : BusyError(w)
    \/ GetTorrentById(PlainFields, BusyMaxStamp, FALSE)
    \/ GetTorrentByIdBusy
    \/ RemoteAdd(BusyMaxId)

SpecBusy == InitBusy /\ [][NextBusy]_vars

\* One worker making passes over a catalog that does not change, starting
\* from a cache other calls have filled: rows inserted under changestamp 1,
\* some of them marked deleted under changestamp 2.
PriorRows ==
    {[group_id |-> 1, important |-> 0, raw_torrent_cached |-> 0,
      counters |-> 0, updated_at |-> 1 + deleted, deleted |-> deleted] :
        deleted \in {0, 1}}

PriorCaches(maxid) ==
    {[series |-> IF DOMAIN te = {} THEN <<>>
                 ELSE 1 :> [params |-> 0, updated_at |-> 1, deleted |-> 0],
      torrent_entry_group |->
                 IF DOMAIN te = {} THEN <<>>
                 ELSE 1 :> [series_id |-> 1, updated_at |-> 1, deleted |-> 0],
      torrent_entry |-> te,
      file_info |-> <<>>,
      global |-> [changestamp |-> 2, scrape_next_offset |-> None,
                  scrape_last_results |-> None]] :
        te \in UNION {[ids -> PriorRows] : ids \in SUBSET (1..maxid)}}

InitPass ==
    /\ db \in PriorCaches(PassMaxId)
    /\ remote \in Catalogs(PassMaxId)
    /\ pc = [w \in Workers |-> "idle"]
    /\ loc = [w \in Workers |-> NoLocals]
    /\ lock = None
    /\ issued = <<>>
    /\ reconciled = {}
    /\ handed = NoPass
    /\ client = NoEntity
    /\ api_token_bucket = <<>>
    /\ now = 0
    /\ caller = [c \in Workers |-> NoCall]
    /\ InitRest

NextPass == UpdateStep(1, PassMaxStamp, PlainFields)

SpecPass == InitPass /\ [][NextPass]_vars

\* Passes of one worker over a cache that already holds rows, some of them
\* deleted, while the remote's entities change group and series between two
\* fetches.
NextCover == UpdateStep(1, PassMaxStamp, StoreFields)

SpecCover == InitPass /\ [][NextCover]_vars

\* The tip scraper polling a remote that gains at most one upload.  An
\* earlier pass has left tip_last_scraped at the remote's newest id, which
\* the cache holds as its newest non-deleted row.
TipCaches(h) ==
    {d \in PriorCaches(h) :
        /\ h \in DOMAIN d.torrent_entry
        /\ d.torrent_entry[h].deleted = 0}

InitTip ==
    /\ db \in TipCaches(TipMaxId - 1)
    /\ remote \in {r \in Catalogs(TipMaxId - 1) :
                      r.born = TipMaxId - 1 /\ r.born \in r.ids}
    /\ pc = [w \in Workers |-> "idle"]
    /\ loc = [w \in Workers |-> NoLocals]
    /\ lock = None
    /\ issued = <<>>
    /\ reconciled = {}
    /\ handed = NoPass
    /\ client = NoEntity
    /\ api_token_bucket = <<>>
    /\ now = 0
    /\ caller = [c \in Workers |-> NoCall]
    /\ InitIdle
    /\ store_raw_torrent = TRUE
    /\ tip = [NoTip EXCEPT !.last = TipMaxId - 1]

TipScraper ==
    \/ TipRead
    \/ TipFeed
    \/ TipGetTorrents
    \/ TipSerialize(PlainFields)
    \/ TipReconcile
    \/ TipWake

NextTip ==
    \/ TipScraper
    \/ RemoteAdd(TipMaxId)

\* The thread of MetadataTipScraper.run keeps running: no step of it waits
\* for ever.
SpecTip == InitTip /\ [][NextTip]_vars /\ WF_vars(TipScraper)

\* The tip scraper polling from a fresh cache while the remote gains and
\* loses torrents: passes of several pages, with and without
\* tip_last_scraped, and pages that miss the overlap.
InitSession == InitFresh(SessionMaxId)

NextSession ==
    \/ TipScraper
    \/ RemoteAdd(SessionMaxId + 1)
    \/ RemoteDelete

SpecSession == InitSession /\ [][NextSession]_vars

\* The file-layout scraper next to one backfill worker, whose passes fill
\* the cache and delete the rows the remote has dropped; metafiles go to
\* disk or not.  The clock stands still: the generic bucket pays for
\* TokenRate downloads.
InitFiler ==
    /\ db = EmptyDb
    /\ remote \in Catalogs(FilerMaxId)
    /\ pc = [w \in Workers |-> "idle"]
    /\ loc = [w \in Workers |-> NoLocals]
    /\ lock = None
    /\ issued = <<>>
    /\ reconciled = {}
    /\ handed = NoPass
    /\ client = NoEntity
    /\ api_token_bucket = <<>>
    /\ now = 0
    /\ caller = [c \in Workers |-> NoCall]
    /\ InitIdle
    /\ tip = NoTip
    /\ store_raw_torrent \in BOOLEAN

NextFiler ==
    \/ FileScraper(FilerMaxStamp)
    \/ UpdateStep(1, FilerMaxStamp, PlainFields)
    \/ RemoteAdd(FilerMaxId)
    \/ RemoteDelete

SpecFiler == InitFiler /\ [][NextFiler]_vars

\* token_period goes by without a request to the site: the generic bucket
\* is full again.
TokenPeriodPasses ==
    /\ peek(token_bucket, now) < TokenRate
    /\ token_bucket' = [level |-> TokenRate, last |-> now]
    /\ UNCHANGED <<scraperVars, api_token_bucket, now, caller, raised, ledger,
                   probe, restVars>>

\* The file-layout scraper as its thread runs it for ever.  A reset comes
\* reset_time (an hour) after the last, a failed step costs a sleep of 60
\* seconds: the queue of the few ids here is empty before the next reset.
FileScraperPaced ==
    \/ \E reset \in BOOLEAN :
           /\ reset => filer.last_reset_time = None \/ filer.queue = EmptyBag
           /\ FilerScan(reset)
    \/ FilerGetCached
    \/ FilerFetch
    \/ \E exc \in {"HTTPError", "APIError"} : FilerFetchFails(exc)
    \/ FilerGotRawTorrent
    \/ FilerSerialize(RetryMaxStamp)
    \/ FilerWake

NextRetry ==
    \/ FileScraperPaced
    \/ UpdateStep(1, RetryMaxStamp, PlainFields)
    \/ RemoteAdd(FilerMaxId)
    \/ RemoteDelete
    \/ TokenPeriodPasses

\* Neither thread stops while it can take a step, a transaction that waits
\* for the write lock gets it in the end, and the bucket refills.
SpecRetry ==
    /\ InitFiler
    /\ [][NextRetry]_vars
    /\ SF_vars(FileScraperPaced)
    /\ WF_vars(UpdateStep(1, RetryMaxStamp, PlainFields))
    /\ WF_vars(TokenPeriodPasses)

\* The API token bucket under two threads that call the API, directly and
\* as backfill workers.
InitBucket == InitFresh(0)

NextBucket ==
    \/ \E c \in Workers, target_tokens \in Leaves :
           UpdateStepTryConsume(c, target_tokens)
    \/ \E c \in Workers, leave_tokens \in Leaves :
           CallApiConsume(c, leave_tokens)
    \/ \E c \in Workers, leave_tokens \in Leaves :
           CallApiWouldBlock(c, leave_tokens)
    \/ \E c \in Workers : CallApiNoConsume(c)
    \/ \E c \in Workers : CallApiResult(c)
    \/ \E c \in Workers : CallApiHTTPError(c)
    \/ \E c \in Workers, code \in Codes : CallApiAPIError(c, code)
    \/ \E c \in Workers : CallApiCallLimitExceeded(c)
    \/ Tick

SpecBucket == InitBucket /\ [][NextBucket]_vars

\* Backfill workers that take their tokens from the API bucket: update_step
\* from try_consume to the reconciliation, the RPC answered with a result
\* or with the call limit error, as time passes.
InitThrottle == InitFresh(ThrottleMaxId)

Throttle(w) ==
    \/ \E target_tokens \in Leaves :
           pc[w] = "idle" /\ UpdateStepTryConsume(w, target_tokens)
    \/ \E target_tokens \in Leaves : UpdateStepBackoff(w, target_tokens)
    \/ Wake(w)
    \/ UpdateStepRaises(w)
    \/ caller[w].pc = "reserved" /\ UpdateStepCursor(w, ThrottleMaxStamp)
    \/ pc[w] = "rpc" /\ CallApiNoConsume(w)
    \/ CallApiResult(w)
    \/ CallApiCallLimitExceeded(w)
    \/ caller[w].pc = "idle" /\ raised[w] = NoError /\ Rpc(w)
    \/ caller[w].pc = "idle" /\ raised[w] # NoError /\ RpcFail(w)
    \/ UpsertBegin(w)
    \/ StampRead(w)
    \/ StampWrite(w)
    \/ Serialize(w, PlainFields)
    \/ Reconcile(w)

NextThrottle ==
    \/ \E w \in Workers : Throttle(w)
    \/ now < ThrottleMaxTime /\ Tick

SpecThrottle == InitThrottle /\ [][NextThrottle]_vars

\* Both buckets under the calls that consume from them, with try_consume(0)
\* at any moment.
NextZero ==
    \/ \E c \in Workers, leave_tokens \in Leaves :
           CallApiConsume(c, leave_tokens)
    \/ \E c \in Workers : CallApiResult(c)
    \/ \E c \in Workers : CallApiCallLimitExceeded(c)
    \/ CallUrl
    \/ TryConsumeZero
    \/ Tick

SpecZero == InitBucket /\ [][NextZero]_vars

\* The metafile cache: two threads that ask TorrentEntry objects for their
\* raw_torrent, next to one API user whose calls fill the cache.
InitMetafile == InitFresh(MetaMaxId)

RawTorrent(t, cap) ==
    \/ \E o \in Objects : RawTorrentLock(t, o)
    \/ RawTorrentCached(t)
    \/ RawTorrentFetch(t)
    \/ GotRawTorrent(t)
    \/ RawTorrentSerialize(t, cap)

NextMetafile ==
    \/ \E o \in Objects : EntryFromDb(o)
    \/ \E t \in Workers : RawTorrent(t, MetaMaxStamp)
    \/ GetTorrentById(PlainFields, MetaMaxStamp, FALSE)
    \/ \E t \in Workers :
           GetTorrentByIdDuringWrite(PlainFields, MetaMaxStamp, t)
    \/ RemoteAdd(MetaMaxId)
    \/ RemoteDelete

SpecMetafile == InitMetafile /\ [][NextMetafile]_vars

\* The codec of metafiles: FileInfo._from_tobj run on every metafile of up
\* to MaxFiles files of up to MaxLength bytes.
InitCodec == InitFresh(0)

NextCodec ==
    \/ FromTobjCall
    \/ FromTobjYieldFile
    \/ FromTobjYieldSingle
    \/ FromTobjReturn

SpecCodec == InitCodec /\ [][NextCodec]_vars

\* ------------------------------------------------------------------------
\* Properties
\* ------------------------------------------------------------------------
\* The state other connections read: nothing is uncommitted.
Committed == lock = None

LiveGroups(s) ==
    {g \in DOMAIN db.torrent_entry_group :
        /\ db.torrent_entry_group[g].series_id = s
        /\ db.torrent_entry_group[g].deleted = 0}

LiveEntries(g) ==
    {t \in DOMAIN db.torrent_entry :
        /\ db.torrent_entry[t].group_id = g
        /\ db.torrent_entry[t].deleted = 0}

\* C1: in every committed state, every non-deleted series has at least one
\* non-deleted torrent_entry_group and every non-deleted
\* torrent_entry_group has at least one non-deleted torrent_entry.
C1_ParentsHaveLiveChildren ==
    Committed =>
        /\ \A s \in DOMAIN db.series :
               db.series[s].deleted = 0 => LiveGroups(s) # {}
        /\ \A g \in DOMAIN db.torrent_entry_group :
               db.torrent_entry_group[g].deleted = 0 => LiveEntries(g) # {}

\* The rows of the three tables, as <<table, id>>.
Rows(d) ==
    ({"series"} \X DOMAIN d.series)
        \cup ({"torrent_entry_group"} \X DOMAIN d.torrent_entry_group)
        \cup ({"torrent_entry"} \X DOMAIN d.torrent_entry)

Row(d, r) == d[r[1]][r[2]]

\* C4: no step of any worker or caller (upsert, window deletion, end-page
\* deletion, parent cascade) removes a row or lowers its updated_at.
C4_UpdatedAtMonotonic ==
    [][\A r \in Rows(db) :
           /\ r \in Rows(db')
           /\ Row(db', r).updated_at >= Row(db, r).updated_at]_vars

\* C4's case: a committed state where a reconciliation has marked a
\* torrent_entry deleted after its insertion, a cascade has marked a group
\* deleted, and an upsert has revived a row.
C4_Witness ==
    /\ Committed
    /\ \E t \in DOMAIN db.torrent_entry :
           db.torrent_entry[t].deleted = 1 /\ db.torrent_entry[t].updated_at > 1
    /\ \E g \in DOMAIN db.torrent_entry_group :
           db.torrent_entry_group[g].deleted = 1
    /\ \E t \in DOMAIN db.torrent_entry :
           db.torrent_entry[t].deleted = 0 /\ db.torrent_entry[t].updated_at > 2

\* C5: the values get_changestamp has returned, in the order of the calls
\* of all connections, are strictly increasing (so no two are equal).
C5_ChangestampsIncrease ==
    \A i, j \in DOMAIN issued : i < j => issued[i] < issued[j]

\* C5's case: one worker is between the read and the write of its
\* get_changestamp while the other waits to begin its transaction, after
\* earlier calls.
C5_Witness ==
    /\ Len(issued) >= 1
    /\ lock = 1
    /\ pc[1] = "stamp_write"
    /\ pc[2] = "begin"

\* The entity the step serializes, NoEntity when the step is no upsert: a
\* turn of getTorrents' loop, or getTorrentById.
Upserted ==
    IF client = NoEntity /\ client' # NoEntity THEN client'
    ELSE IF \E w \in Workers : loc'[w].todo # loc[w].todo /\ pc[w] = "serialize"
           THEN loc'[CHOOSE w \in Workers :
                        loc'[w].todo # loc[w].todo /\ pc[w] = "serialize"].te
    ELSE NoEntity

\* The torrent_entry row of e is there, not deleted, and equal to e in its
\* important columns.
StoredEntry(d, e) ==
    /\ e.id \in DOMAIN d.torrent_entry
    /\ d.torrent_entry[e.id].deleted = 0
    /\ d.torrent_entry[e.id].group_id = e.group_id
    /\ d.torrent_entry[e.id].important = e.important

\* The parent rows of e are there and equal to e's group and series.
StoredParents(d, e) ==
    /\ e.group_id \in DOMAIN d.torrent_entry_group
    /\ d.torrent_entry_group[e.group_id].series_id = e.series_id
    /\ e.series_id \in DOMAIN d.series
    /\ d.series[e.series_id].params = e.series_params

\* C6: an upsert of an entity identical to what is stored, on a
\* non-deleted row, leaves updated_at of the torrent_entry, of its
\* torrent_entry_group and of its series unchanged.
C6_IdenticalUpsertKeepsUpdatedAt ==
    [][LET e == Upserted
       IN  (/\ e # NoEntity
            /\ StoredEntry(db, e)
            /\ StoredParents(db, e)
            /\ db.torrent_entry[e.id].counters = e.counters)
           => /\ db'.torrent_entry[e.id].updated_at
                    = db.torrent_entry[e.id].updated_at
              /\ db'.torrent_entry_group[e.group_id].updated_at
                    = db.torrent_entry_group[e.group_id].updated_at
              /\ db'.series[e.series_id].updated_at
                    = db.series[e.series_id].updated_at]_vars

\* The API user's call was the first to draw a changestamp after worker 1's
\* getTorrents committed, and upserted an entity with the id and important
\* fields of the one the worker serialized last.
UpsertedTwice ==
    /\ Committed
    /\ pc[1] = "reconcile"
    /\ client # NoEntity
    /\ db.global.changestamp = loc[1].changestamp + 1
    /\ client.id = loc[1].te.id
    /\ client.group_id = loc[1].te.group_id
    /\ client.series_id = loc[1].te.series_id
    /\ client.important = loc[1].te.important
    /\ client.series_params = loc[1].te.series_params

\* C6's case: the second upsert was of an identical entity, and the three
\* rows still carry the worker's changestamp or an older one.
C6_Witness ==
    /\ UpsertedTwice
    /\ client.counters = loc[1].te.counters
    /\ db.torrent_entry[client.id].updated_at <= loc[1].changestamp
    /\ db.torrent_entry_group[client.group_id].updated_at
           <= loc[1].changestamp
    /\ db.series[client.series_id].updated_at <= loc[1].changestamp

\* C7: an upsert that differs from the stored non-deleted row only in the
\* counters stores them and leaves updated_at, like every other column,
\* unchanged.
C7_CounterUpsertKeepsUpdatedAt ==
    [][LET e == Upserted
       IN  (/\ e # NoEntity
            /\ StoredEntry(db, e)
            /\ db.torrent_entry[e.id].counters # e.counters)
           => db'.torrent_entry[e.id]
                  = [db.torrent_entry[e.id] EXCEPT !.counters = e.counters]]_vars

\* C7's case: the second upsert differed in the counters alone; the row
\* holds the new counters under the worker's changestamp.
C7_Witness ==
    /\ UpsertedTwice
    /\ client.counters # loc[1].te.counters
    /\ db.torrent_entry[client.id].counters = client.counters
    /\ db.torrent_entry[client.id].updated_at = loc[1].changestamp

\* C13: an upsert that finds a torrent_entry row differing from the
\* entity in an important column (group_id among them) leaves the row with
\* the entity's important columns and counters, and with updated_at equal
\* to the changestamp of the transaction, which is greater than the
\* updated_at the row had.
C13_ImportantUpsertRestamps ==
    [][LET e == Upserted
       IN  (/\ e # NoEntity
            /\ e.id \in DOMAIN db.torrent_entry
            /\ \/ db.torrent_entry[e.id].group_id # e.group_id
               \/ db.torrent_entry[e.id].important # e.important)
           => /\ db'.torrent_entry[e.id].group_id = e.group_id
              /\ db'.torrent_entry[e.id].important = e.important
              /\ db'.torrent_entry[e.id].counters = e.counters
              /\ db'.torrent_entry[e.id].updated_at
                    = db'.global.changestamp
              /\ \E i \in DOMAIN issued' :
                    issued'[i] = db'.global.changestamp
              /\ db'.torrent_entry[e.id].updated_at
                    > db.torrent_entry[e.id].updated_at]_vars

\* C13's case: the API user's call was the first to draw a changestamp
\* after worker 1's getTorrents committed, and upserted the id the worker
\* serialized last with another important value and other counters; the
\* row holds both under the new changestamp.
C13_Witness ==
    /\ Committed
    /\ pc[1] = "reconcile"
    /\ client # NoEntity
    /\ db.global.changestamp = loc[1].changestamp + 1
    /\ client.id = loc[1].te.id
    /\ client.group_id = loc[1].te.group_id
    /\ client.important # loc[1].te.important
    /\ client.counters # loc[1].te.counters
    /\ db.torrent_entry[client.id].important = client.important
    /\ db.torrent_entry[client.id].counters = client.counters
    /\ db.torrent_entry[client.id].updated_at = db.global.changestamp

\* The ids the cache holds as not deleted.
LiveIds(d) == {t \in DOMAIN d.torrent_entry : d.torrent_entry[t].deleted = 0}

\* Worker 1 has just ended the step that wrapped the cursor to 0: with one
\* worker, no failed step and a catalog that does not change, the pages at
\* offsets 0, BLOCK_SIZE - 1, ... up to the end page and beyond have all been
\* fetched and reconciled.
PassDone ==
    /\ pc[1] = "idle"
    /\ db.global.scrape_next_offset = 0
    /\ db.global.scrape_last_results = Cardinality(remote.ids)

\* C2: after one full pass of a single worker over a remote catalog R that
\* does not change, whatever the cache held before, the non-deleted
\* torrent_entry ids are exactly R (so every cached id outside R is
\* deleted).
C2_FullPassConverges ==
    PassDone => LiveIds(db) = remote.ids

\* C3: at every instant t, the consumptions the API bucket records within
\* [t - Period, t], made by call_api with consume_token true and by
\* update_step's try_consume on any thread, number at most Rate.
C3_WindowWithinRate ==
    \A t \in (0 - Period)..MaxTime :
        Cardinality(InWindow(api_token_bucket, t)) <= Rate

\* C3's case: the bucket is full right now, after a call limit error has
\* rewritten it and a later token was granted, while one thread has sent
\* its request and the other has reserved a token as a backfill worker.
C3_Witness ==
    /\ Cardinality(InWindow(api_token_bucket, now)) = Rate
    /\ api_token_bucket[1] < 0
    /\ api_token_bucket[Len(api_token_bucket)] = now
    /\ \E c \in Workers : caller[c].pc = "sent"
    /\ \E c \in Workers : caller[c].pc = "reserved"

\* The rows a page with ids I at the given offset implies are gone from the
\* remote: strictly between the page's smallest and largest id and not in
\* the page; on an end page, also everything below the smallest id.
Implied(t, offset, ids, results) ==
    \/ Min(ids) < t /\ t < Max(ids) /\ t \notin ids
    \/ offset + Cardinality(ids) >= results /\ t < Min(ids)

\* C8: no committed state holds the upserts of a page without the
\* deletions the page implies: once getTorrents has committed worker w's
\* page, no non-deleted row is one the page implies deleted.
C8_PageAppliedAtomically ==
    \A w \in Workers :
        (Committed /\ pc[w] = "reconcile" /\ loc[w].ids # {})
            => ~\E t \in LiveIds(db) :
                   Implied(t, loc[w].offset, loc[w].ids, loc[w].results)

\* C9: the cursor never skips a page: between steps, every offset of the
\* current pass that scrape_next_offset has moved past has had its page
\* fetched and its reconciliation committed (a failed step's offset is
\* fetched again before the cursor moves on).
C9_CursorNeverSkips ==
    (\A w \in Workers : pc[w] \in {"idle", "sleep"})
        => \A o \in 0..MaxOffset :
               (/\ o % (BLOCK_SIZE - 1) = 0
                /\ o < get_int_or_0(db.global.scrape_next_offset))
                   => o \in reconciled

\* C10: the reconciliation of a non-empty page I = [i0 > ... > ik] marks
\* deleted exactly the non-deleted rows with ik < id < i0 and id not in I
\* and, only when offset + |I| >= results, those with id < ik; each marked
\* row gets the changestamp the reconciliation draws as updated_at, and
\* every other row (those in I, those with id >= i0) is left as it was.
C10_ReconcileMarksExactly ==
    [][\A w \in Workers :
           (pc[w] = "reconcile" /\ pc'[w] = "idle" /\ loc[w].ids # {})
               => /\ DOMAIN db'.torrent_entry = DOMAIN db.torrent_entry
                  /\ db'.global.changestamp = db.global.changestamp + 1
                  /\ \A t \in DOMAIN db.torrent_entry :
                         db'.torrent_entry[t] =
                             IF /\ db.torrent_entry[t].deleted = 0
                                /\ Implied(t, loc[w].offset, loc[w].ids,
                                           loc[w].results)
                               THEN [db.torrent_entry[t] EXCEPT
                                        !.deleted = 1,
                                        !.updated_at =
                                            db'.global.changestamp]
                               ELSE db.torrent_entry[t]]_vars

\* C10's case: a reconciliation has just marked a row inside its page's
\* window (live rows of the page remain on both sides of it) under the
\* changestamp it drew, the last one issued.
C10_Witness ==
    /\ pc[1] = "idle"
    /\ issued # <<>>
    /\ issued[Len(issued)] = db.global.changestamp
    /\ \E t \in DOMAIN db.torrent_entry :
           /\ db.torrent_entry[t].deleted = 1
           /\ db.torrent_entry[t].updated_at = db.global.changestamp
           /\ \E lo, hi \in LiveIds(db) : lo < t /\ t < hi

\* C11: in every committed state, a torrent_entry row has
\* raw_torrent_cached = 1 exactly when the metafile of its id is on disk
\* and the file_info table holds the records of that metafile; also after
\* the file is written and before the row update commits, and for rows
\* upserted without a metafile fetch.
C11_CachedIffOnDisk ==
    Committed =>
        \A id \in DOMAIN db.torrent_entry :
            db.torrent_entry[id].raw_torrent_cached = 1
                <=> (id \in disk /\ id \in DOMAIN db.file_info)

\* C20: whatever threads and TorrentEntry objects ask for the metafile of
\* an id, the metafile is downloaded over HTTP at most once.
C20_OneDownloadPerId ==
    \A id \in DOMAIN downloads : downloads[id] <= 1

\* Worker w holds the page getTorrents returned for its offset.
Fetched(w) ==
    pc[w] \in {"begin", "stamp_read", "stamp_write", "serialize",
               "reconcile"}

\* C14: two non-empty pages fetched at consecutive offsets of one pass
\* (offset and offset + BLOCK_SIZE - 1, here of the first pass, before any
\* reconciliation has stored scrape_last_results) share an id, however the
\* remote catalog changed between the two fetches.
C14_ConsecutivePagesOverlap ==
    \A w1, w2 \in Workers :
        (/\ db.global.scrape_last_results = None
         /\ Fetched(w1)
         /\ Fetched(w2)
         /\ loc[w2].offset = loc[w1].offset + BLOCK_SIZE - 1
         /\ loc[w1].ids # {}
         /\ loc[w2].ids # {})
            => loc[w1].ids \cap loc[w2].ids # {}

\* C15: a BusyError met by a write path is retried inside the routine:
\* it never reaches the caller of the API or the run loop of a worker.
C15_BusyNeverSurfaces ==
    \A b \in busy : b[2] = "retried"

\* The getTorrents calls the tip scraper made when the remote's newest id
\* was h.
RpcsAtHead(h) == {i \in DOMAIN rpcs : rpcs[i].head = h}

\* The pass is over: h is stored as tip_last_scraped, the session keys are
\* cleared and the cache holds h as not deleted.
CaughtUp(h) ==
    /\ tip = [NoTip EXCEPT !.last = h]
    /\ h \in DOMAIN db.torrent_entry
    /\ db.torrent_entry[h].deleted = 0

\* C16: with tip_last_scraped = h (here TipMaxId - 1) and the cache's head
\* equal to the remote's, once the remote has gained h' (here TipMaxId) the
\* tip scraper makes a pass that upserts h' and leaves tip_last_scraped =
\* h' with the session keys cleared; the pass takes one getTorrents call,
\* and no poll after it makes another.
C16_TipCatchUp ==
    /\ [](Cardinality(RpcsAtHead(TipMaxId)) <= 1)
    /\ []((RpcsAtHead(TipMaxId) # {} /\ tipper.pc \in {"idle", "sleep", "feed"})
            => CaughtUp(TipMaxId))
    /\ (remote.born = TipMaxId) ~> CaughtUp(TipMaxId)

\* C16's case: the pass for h' is over, and a later poll has read the head
\* of the cache, h' included, and is about to compare it with the feed.
C16_Witness ==
    /\ remote.born = TipMaxId
    /\ CaughtUp(TipMaxId)
    /\ Cardinality(RpcsAtHead(TipMaxId)) = 1
    /\ tipper.pc = "feed"
    /\ TipMaxId \in tipper.db_ids

\* The rows that carry an updated_at, as <<table, id>>: those of the three
\* entity tables and the file_info rows of a torrent.
StampedRows(d) == Rows(d) \cup ({"file_info"} \X DOMAIN d.file_info)

\* The rows a step inserted or whose updated_at it changed.
Stamped ==
    {r \in StampedRows(db') :
        r \notin StampedRows(db)
            \/ Row(db', r).updated_at # Row(db, r).updated_at}

\* C17: the rows a write transaction stamps all get the changestamp the
\* transaction drew, and no other transaction uses that value: a step
\* stamps rows with the value of the counter only; a step that leaves the
\* counter alone stamps rows only inside the transaction that drew its
\* value; and a step that draws a value leaves every row stamped before
\* with a smaller one.
C17_OneStampPerTransaction ==
    [][/\ \A r \in Stamped :
              Row(db', r).updated_at = db'.global.changestamp
       /\ (Stamped # {} /\ db'.global.changestamp = db.global.changestamp)
              => \E w \in Workers :
                     /\ lock = w
                     /\ pc[w] = "serialize"
                     /\ loc[w].changestamp = db.global.changestamp
       /\ db'.global.changestamp # db.global.changestamp
              => \A r \in StampedRows(db) :
                     Row(db, r).updated_at < db'.global.changestamp]_vars

\* C17's case: the last transaction stamped a torrent_entry, its group and
\* a group left without entries (a cascaded deletion) with one value, and
\* an earlier transaction stamped another row with a smaller one.
C17_Witness ==
    /\ Committed
    /\ \E t \in DOMAIN db.torrent_entry :
           /\ db.torrent_entry[t].updated_at = db.global.changestamp
           /\ db.torrent_entry[t].deleted = 0
    /\ \E g \in DOMAIN db.torrent_entry_group :
           /\ db.torrent_entry_group[g].updated_at = db.global.changestamp
           /\ db.torrent_entry_group[g].deleted = 0
    /\ \E g \in DOMAIN db.torrent_entry_group :
           /\ db.torrent_entry_group[g].updated_at = db.global.changestamp
           /\ db.torrent_entry_group[g].deleted = 1
    /\ \E r \in StampedRows(db) :
           Row(db, r).updated_at < db.global.changestamp

\* C18: feeding the scraper a page consumes exactly one changestamp, the
\* one getTorrents draws for the upserts: the reconciliation that ends the
\* update_step leaves the persisted counter where the upserts left it (so
\* that the same page fed twice to an empty database leaves it at 2).
C18_OneStampPerPass ==
    [][\A w \in Workers :
           (pc[w] = "reconcile" /\ pc'[w] = "idle")
               => db'.global.changestamp = db.global.changestamp]_vars

\* C19: when a request sent at T = call_time is answered with
\* CODE_CALL_LIMIT_EXCEEDED, the bucket the step leaves (APIError is raised
\* after it) holds exactly Rate timestamps, all within [T - Period, T], with
\* equal gaps between T - Period, the timestamps in order, and T; no token
\* is left at T.
C19_CallLimitRewritesBucket ==
    [][\A c \in Workers :
           (/\ caller[c].pc = "sent"
            /\ caller'[c] = NoCall
            /\ api_token_bucket' # api_token_bucket)
               => LET T == caller[c].call_time
                      q == api_token_bucket'
                      gap == q[1] - (T - Period)
                  IN  /\ Len(q) = Rate
                      /\ \A i \in DOMAIN q :
                             T - Period <= q[i] /\ q[i] <= T
                      /\ gap > 0
                      /\ \A i \in 1..(Len(q) - 1) : q[i + 1] - q[i] = gap
                      /\ T - q[Len(q)] = gap
                      /\ ~try_consume(q, 1, 0, T)]_vars

\* C19's case: a request sent and answered at this instant got the call
\* limit error: the bucket holds the synthetic timestamps of the period
\* before now, some of them before the process started.
C19_Witness ==
    /\ now > 0
    /\ api_token_bucket = fill(0, now, Rate)
    /\ api_token_bucket[1] < 0
    /\ \A c \in Workers : caller[c] = NoCall

\* The tokens try_consume finds available in the API bucket right now.
Available == Rate - Cardinality(InWindow(api_token_bucket, now))

\* C21: a call_api that consumes its token without blocking raises WouldBlock
\* exactly when fewer than 1 + leave_tokens tokens are available, and then
\* it sends no request and leaves the bucket as it was; a request goes out
\* only in a step that recorded one consumption at the time of the call.
C21_WouldBlockSendsNothing ==
    [][\A c \in Workers :
           /\ (/\ raised'[c].exc = "WouldBlock"
               /\ raised'[c] # raised[c])
                  => /\ Available - 1 < caller'[c].leave
                     /\ api_token_bucket' = api_token_bucket
                     /\ caller'[c].pc = "idle"
           /\ (caller[c].pc = "idle" /\ caller'[c].pc = "sent")
                  => /\ Available - 1 >= caller'[c].leave
                     /\ Len(api_token_bucket') > 0
                     /\ api_token_bucket'[Len(api_token_bucket')] = now
                     /\ Cardinality(InWindow(api_token_bucket', now))
                            = Cardinality(InWindow(api_token_bucket, now))
                                + 1]_vars

\* C21's case: thread 1 was refused with WouldBlock, asking to leave no
\* token, while the bucket is full and the request of thread 2 is out.
C21_Witness ==
    /\ raised[1].exc = "WouldBlock"
    /\ caller[1].pc = "idle"
    /\ caller[1].leave = 0
    /\ Available = 0
    /\ caller[2].pc = "sent"

StaysDeleted(table, id) ==
    /\ id \in DOMAIN table
    /\ table[id].deleted = 1
    /\ table'[id].deleted = 1

\* C23: no step (window deletion, end-page deletion, upsert with its group
\* and series cascades) changes the updated_at of a row of torrent_entry,
\* torrent_entry_group or series that it finds deleted and leaves deleted.
C23_DeletedRowsKeepUpdatedAt ==
    [][/\ \A t \in DOMAIN db.torrent_entry :
              StaysDeleted(db.torrent_entry, t)
                  => db'.torrent_entry[t].updated_at
                         = db.torrent_entry[t].updated_at
       /\ \A g \in DOMAIN db.torrent_entry_group :
              StaysDeleted(db.torrent_entry_group, g)
                  => db'.torrent_entry_group[g].updated_at
                         = db.torrent_entry_group[g].updated_at
       /\ \A s \in DOMAIN db.series :
              StaysDeleted(db.series, s)
                  => db'.series[s].updated_at = db.series[s].updated_at]_vars

\* C23's case: row 1 was deleted (at changestamp 2) before the worker
\* started, and the end page {2} has covered it in two passes, reconciled
\* at changestamps 4 and 7.  The upsert of the first pass (changestamp 3)
\* emptied group 1 and with it series 1; the upsert of the second pass
\* (changestamp 6) brought group 1 back under series 2, and the cascade on
\* its old series 1 found it deleted.
C23_Witness ==
    /\ pc[1] = "idle"
    /\ remote.ids = {2}
    /\ 0 \in reconciled
    /\ db.global.changestamp = 7
    /\ 1 \in DOMAIN db.torrent_entry
    /\ db.torrent_entry[1].deleted = 1
    /\ db.torrent_entry[1].updated_at = 2
    /\ db.series[1].deleted = 1
    /\ db.series[1].updated_at = 3
    /\ db.torrent_entry_group[1].deleted = 0
    /\ db.torrent_entry_group[1].series_id = 2
    /\ db.torrent_entry_group[1].updated_at = 6

\* The non-deleted torrent entries of a group, the non-deleted groups of a
\* series.
EntriesLeft(d, g) ==
    {t \in DOMAIN d.torrent_entry :
        /\ d.torrent_entry[t].group_id = g
        /\ d.torrent_entry[t].deleted = 0}

GroupsLeft(d, s) ==
    {g \in DOMAIN d.torrent_entry_group :
        /\ d.torrent_entry_group[g].series_id = s
        /\ d.torrent_entry_group[g].deleted = 0}

\* The step leaves the row deleted, stamped with changestamp if it is the
\* step that deleted it.
MarkedDeleted(table, after, id, changestamp) ==
    /\ after[id].deleted = 1
    /\ after[id].updated_at =
           IF table[id].deleted = 0 THEN changestamp
           ELSE table[id].updated_at

\* C24: when the upsert of an entity at changestamp c moves its
\* torrent_entry row to another group, the old group is marked deleted at c
\* if the step leaves it no non-deleted entry, and then its series is marked
\* deleted at c if the step leaves it no non-deleted group; when the upsert
\* moves the group's row to another series, the old series is marked deleted
\* at c if the step leaves it no non-deleted group.  An old parent that
\* keeps a non-deleted child keeps its row as it was.
C24_MoveCascades ==
    [][(pc[1] = "serialize" /\ loc'[1].todo # loc[1].todo)
          => LET e == loc'[1].te
                 c == loc[1].changestamp
                 groups == db.torrent_entry_group
                 og == db.torrent_entry[e.id].group_id
                 os == groups[e.group_id].series_id
             IN  /\ (/\ e.id \in DOMAIN db.torrent_entry
                     /\ og # e.group_id)
                        => IF EntriesLeft(db', og) # {}
                             THEN db'.torrent_entry_group[og] = groups[og]
                           ELSE
                             /\ MarkedDeleted(groups,
                                    db'.torrent_entry_group, og, c)
                             /\ LET s == groups[og].series_id
                                IN  IF GroupsLeft(db', s) = {}
                                      THEN MarkedDeleted(db.series,
                                               db'.series, s, c)
                                    ELSE s # e.series_id
                                             => db'.series[s] = db.series[s]
                 /\ (/\ e.group_id \in DOMAIN groups
                     /\ os # e.series_id)
                        => IF GroupsLeft(db', os) = {}
                             THEN MarkedDeleted(db.series, db'.series, os, c)
                           ELSE db'.series[os] = db.series[os]]_vars

\* C24's case: the upsert of entry 3 has just moved it from group 1 of
\* series 1 to group 2 of series 2: group 1 and series 1 lost their last
\* child and carry the changestamp of the upsert, as do the row and its new
\* parents.
C24_Witness ==
    /\ pc[1] = "reconcile"
    /\ loc[1].te.id = 3
    /\ loc[1].te.group_id = 2
    /\ loc[1].te.series_id = 2
    /\ db.global.changestamp = 3
    /\ 3 \in DOMAIN db.torrent_entry
    /\ {1, 2} \subseteq DOMAIN db.torrent_entry_group
    /\ 1 \in DOMAIN db.series
    /\ db.torrent_entry[3].group_id = 2
    /\ db.torrent_entry[3].updated_at = 3
    /\ db.torrent_entry_group[2].updated_at = 3
    /\ db.torrent_entry_group[2].deleted = 0
    /\ db.torrent_entry_group[1].deleted = 1
    /\ db.torrent_entry_group[1].updated_at = 3
    /\ db.series[1].deleted = 1
    /\ db.series[1].updated_at = 3

\* C25: a worker's update_step ends at its try_consume, sending the run loop
\* to sleep, exactly when fewer than 1 + target_tokens tokens are available;
\* that step changes nothing of the database (cursor, scrape_last_results,
\* rows, changestamp counter), sends no RPC and consumes no token.
C25_BackoffChangesNothing ==
    [][\A w \in Workers :
           /\ (pc[w] = "idle" /\ pc'[w] = "sleep" /\ caller[w].pc = "idle")
                  => /\ Available - 1 < caller'[w].leave
                     /\ db' = db
                     /\ ledger' = ledger
                     /\ api_token_bucket' = api_token_bucket
                     /\ caller'[w].pc = "idle"
           /\ (caller[w].pc = "idle" /\ caller'[w].pc = "reserved")
                  => Available - 1 >= caller'[w].leave]_vars

\* C25's case: worker 1 sleeps after a try_consume that was to leave no
\* token and failed on the empty bucket, having sent no RPC, while the
\* steps of worker 2 have advanced the cursor and cached a row.
C25_Witness ==
    /\ pc[1] = "sleep"
    /\ caller[1].pc = "idle"
    /\ caller[1].leave = 0
    /\ Available = 0
    /\ ledger[1] = NoLedger
    /\ ledger[2].rpcs > 0
    /\ db.global.scrape_next_offset = BLOCK_SIZE - 1
    /\ db.global.changestamp > 0
    /\ DOMAIN db.torrent_entry # {}

\* C26: a worker sends its getTorrents RPC only while it holds the token its
\* try_consume obtained in this update_step, and sending it records no
\* consumption; a successful try_consume records exactly one.  So each
\* worker has consumed at least as many tokens as it has sent RPCs, one more
\* while it holds a token it has not used yet.
C26_OneTokenPerRpc ==
    /\ [](\A w \in Workers :
             ledger[w].tokens >=
                 ledger[w].rpcs + IF caller[w].pc = "reserved" THEN 1 ELSE 0)
    /\ [][\A w \in Workers :
             /\ ledger'[w].rpcs # ledger[w].rpcs
                    => /\ ledger'[w].rpcs = ledger[w].rpcs + 1
                       /\ ledger'[w].tokens = ledger[w].tokens
                       /\ caller[w].pc = "reserved"
                       /\ caller'[w].pc = "sent"
                       /\ api_token_bucket' = api_token_bucket
             /\ ledger'[w].tokens # ledger[w].tokens
                    => /\ ledger'[w].tokens = ledger[w].tokens + 1
                       /\ caller[w].pc = "idle"
                       /\ caller'[w].pc = "reserved"
                       /\ Available - 1 >= caller'[w].leave
                       /\ Cardinality(InWindow(api_token_bucket', now)) =
                              Cardinality(InWindow(api_token_bucket, now))
                                  + 1]_vars

\* C26's case: worker 2 is writing the page of the one RPC it sent on the
\* one token it consumed, while worker 1 has spent a token on a step that
\* ended before its RPC.
C26_Witness ==
    /\ ledger[2] = [tokens |-> 1, rpcs |-> 1]
    /\ lock = 2
    /\ ledger[1] = [tokens |-> 1, rpcs |-> 0]
    /\ caller[1].pc = "idle"
    /\ pc[1] = "sleep"
    /\ Len(api_token_bucket) = 2

\* C27: right after the step in which a worker's try_consume(1,
\* leave=target_tokens) succeeds, with other workers consuming before and
\* after it, at least target_tokens tokens are available in the API bucket.
C27_BackfillLeavesTarget ==
    [][\A w \in Workers :
           (caller[w].pc = "idle" /\ caller'[w].pc = "reserved")
               => Rate - Cardinality(InWindow(api_token_bucket', now'))
                      >= caller'[w].leave]_vars

\* C27's case: worker 1 holds the token it obtained while leaving one, which
\* is still available; worker 2 asked to leave one too, was refused and
\* sleeps without having consumed anything.
C27_Witness ==
    /\ caller[1].pc = "reserved"
    /\ caller[1].leave = 1
    /\ Available = 1
    /\ pc[2] = "sleep"
    /\ caller[2].pc = "idle"
    /\ caller[2].leave = 1
    /\ ledger[2] = NoLedger

\* C28: the first transaction of an update_step reads offset =
\* scrape_next_offset (0 when unset) into the step and stores
\* offset + BLOCK_SIZE - 1, or 0 when that value is greater than the stored
\* scrape_last_results; the RPC of the step answers with the page at the
\* offset read.
C28_CursorAdvance ==
    [][\A w \in Workers :
           /\ (pc[w] = "idle" /\ pc'[w] = "rpc")
                  => LET offset == get_int_or_0(db.global.scrape_next_offset)
                         results == db.global.scrape_last_results
                         next == offset + BLOCK_SIZE - 1
                     IN  /\ loc'[w].offset = offset
                         /\ db'.global.scrape_next_offset =
                                IF results # None /\ next > results
                                  THEN 0 ELSE next
           /\ (pc[w] = "rpc" /\ pc'[w] = "begin")
                  => /\ loc'[w].offset = loc[w].offset
                     /\ loc'[w].ids = Page(remote.ids, loc[w].offset)]_vars

\* C29: the step in which call_api handles the response of thread c ends
\* with a result, with HTTPError or with APIError carrying the code of the
\* response; it changes the API bucket only when that code is
\* CODE_CALL_LIMIT_EXCEEDED, and otherwise leaves the queue of timestamps
\* as it found it.
C29_OnlyCallLimitRewrites ==
    [][\A c \in Workers :
           (caller[c].pc = "sent" /\ caller'[c].pc = "idle")
               => /\ raised'[c].exc \in {"none", "HTTPError", "APIError"}
                  /\ raised'[c].exc = "APIError" <=> raised'[c].code \in Codes
                  /\ raised'[c].code # CODE_CALL_LIMIT_EXCEEDED
                         => api_token_bucket' = api_token_bucket]_vars

\* C29's case: the request of thread 1 was answered with an error of
\* another code and that of thread 2 with an HTTP error; the bucket still
\* holds the two consumptions the calls made at this instant.
C29_Witness ==
    /\ raised[1].exc = "APIError"
    /\ raised[1].code # CODE_CALL_LIMIT_EXCEEDED
    /\ raised[2].exc = "HTTPError"
    /\ \A c \in Workers : caller[c].pc = "idle"
    /\ api_token_bucket = <<now, now>>

\* The tops of the pages the tip scraper has fetched in its session: those
\* of the getTorrents calls since the latest one made without a stored
\* tip_scrape_offset.
SessionTops ==
    LET start == Max({i \in DOMAIN rpcs : rpcs[i].first})
    IN  {rpcs[i].top : i \in start..Len(rpcs)} \ {None}

\* The smaller of two ids, the first of which may be unset.
MinId(a, b) == IF a = None \/ b < a THEN b ELSE a

\* C30: when update_scrape_results_locked gets a page I whose top id is >=
\* tip_scrape_oldest, or tip_scrape_oldest is unset, the pass completes if
\* and only if I is the end page or its smallest id is <=
\* tip_last_scraped; on completion tip_last_scraped becomes the largest
\* page top the session has seen and the three session keys are cleared;
\* otherwise tip_scrape_offset is the offset fetched plus len(I) - 1 and
\* tip_scrape_oldest the smaller of its old value and I's smallest id, and
\* the scraper fetches the next page without sleeping.
C30_TipSessionStep ==
    [][(/\ tipper.pc = "reconcile"
        /\ tipper'.pc # "reconcile"
        /\ tipper.ids # {}
        /\ tip.oldest = None \/ Max(tipper.ids) >= tip.oldest)
           => IF \/ tipper.offset + Cardinality(tipper.ids) >= tipper.results
                 \/ tip.last # None /\ Min(tipper.ids) <= tip.last
                THEN /\ tip' = [last |-> Max(SessionTops), offset |-> None,
                                oldest |-> None, newest |-> None]
                     /\ tipper'.pc = "sleep"
                ELSE /\ tip'.offset
                            = tipper.offset + Cardinality(tipper.ids) - 1
                     /\ tip'.oldest = MinId(tip.oldest, Min(tipper.ids))
                     /\ tip'.last = tip.last
                     /\ tipper'.pc = "idle"]_vars

\* C30's case: a second pass, begun with tip_last_scraped set, took two
\* pages with different tops: the first was neither the end page nor
\* caught up, the second completed the pass, and tip_last_scraped is the
\* top of the first.
C30_Witness ==
    /\ Len(rpcs) = 3
    /\ rpcs[1].top # None
    /\ rpcs[2].first /\ ~rpcs[3].first
    /\ rpcs[3].offset = BLOCK_SIZE - 1
    /\ rpcs[3].top # None /\ rpcs[3].top < rpcs[2].top
    /\ tipper.pc = "sleep"
    /\ tip = [NoTip EXCEPT !.last = rpcs[2].top]

\* The tip scraper stores the keys for a page that missed the overlap: a
\* page with ids whose top is below tip_scrape_oldest.
MissedOverlap ==
    /\ tipper.pc = "reconcile"
    /\ tipper'.pc # "reconcile"
    /\ tipper.ids # {}
    /\ tip.oldest # None
    /\ Max(tipper.ids) < tip.oldest

UnfilledSince(stamp) ==
    {id \in DOMAIN db.torrent_entry :
        /\ db.torrent_entry[id].deleted = 0
        /\ id \notin DOMAIN db.file_info
        /\ db.torrent_entry[id].updated_at > stamp}

\* C32: a scan of the file-layout scraper whose previous scan saw a stamp
\* adds to the queue exactly the non-deleted rows without file_info whose
\* updated_at is above that stamp, and after a reset it queues every
\* non-deleted row without file_info into an empty queue; the step then
\* takes the largest id queued, or none when the queue is empty, and the
\* stamp it leaves is the largest updated_at of torrent_entry.
C32_ScanQueuesUnfilled ==
    [][(/\ filer.pc = "idle"
        /\ filer' # filer
        /\ filer'.reset \/ filer.ts # NULL)
           => LET queued ==
                      IF filer'.reset THEN SetToBag(UnfilledSince(0 - 1))
                      ELSE filer.queue (+) SetToBag(UnfilledSince(filer.ts))
              IN  /\ IF queued = EmptyBag
                        THEN /\ filer'.id = None
                             /\ filer'.queue = EmptyBag
                             /\ filer'.pc = "idle"
                        ELSE /\ filer'.id = Max(BagToSet(queued))
                             /\ filer'.queue (+) SetToBag({filer'.id}) = queued
                             /\ filer'.pc = "get"
                  /\ \A id \in DOMAIN db.torrent_entry :
                         db.torrent_entry[id].updated_at <= filer'.ts]_vars

\* C32's case: a scan without reset has queued and taken id 2, added since
\* the previous scan, and left out row 1, which is not deleted and has no
\* file_info but was seen by the previous scan.
C32_Witness ==
    /\ ~filer.reset
    /\ filer.pc = "get"
    /\ filer.id = 2
    /\ filer.queue = EmptyBag
    /\ 1 \in DOMAIN db.torrent_entry
    /\ db.torrent_entry[1].deleted = 0
    /\ 1 \notin DOMAIN db.file_info

\* C33: once the file-layout scraper has fetched the metafile of t and
\* bencode has loaded it, the transaction of _got_raw_torrent leaves the
\* complete layout of t in file_info, one row for each file index of the
\* metafile, and t is no longer among the unfilled rows; with
\* store_raw_torrent on or off.
C33_FetchedTorrentIsFilled ==
    [][(filer.pc = "written" /\ filer'.pc = "idle")
           => /\ filer.id \in DOMAIN db'.file_info
              /\ db'.file_info[filer.id].file_index
                     = 0..(NumFiles(filer.id) - 1)
              /\ filer.id \notin get_unfilled_ids(db', 0 - 1)]_vars

\* The file-layout scraper's step has taken id t from the queue.
Attempted(t) == filer.pc = "get" /\ filer.id = t

\* Row t is deleted or has its file_info rows.
DeletedOrFilled(t) ==
    /\ t \in DOMAIN db.torrent_entry
    /\ \/ db.torrent_entry[t].deleted = 1
       \/ t \in DOMAIN db.file_info

\* No changestamp is left below the bound of the model.
StampsUsedUp == db.global.changestamp + Reserved(Workers) >= RetryMaxStamp

C35_RemovedStaysDeleted ==
    [][\A id \in DOMAIN db.torrent_entry :
           (id \notin remote.ids /\ db.torrent_entry[id].deleted = 1)
               => db'.torrent_entry[id].deleted = 1]_vars

\* C36: with the remote catalog static, repeated scrape_step calls complete
\* the pass from every session state instead of fetching the same offset
\* for ever.  scrape_step is a function of the tip_* keys and the catalog,
\* so a pass can only end if no step on the static catalog (the page it
\* stores is the page the remote serves now) leaves an open session with
\* the keys it found: such a step is repeated as it is, call after call.
C36_StaticCatalogPassEnds ==
    [][(/\ tipper.pc = "reconcile"
        /\ tipper'.pc # "reconcile"
        /\ tipper.ids = Page(remote.ids, tipper.offset)
        /\ tipper.results = Cardinality(remote.ids))
           => \/ tip'.offset = None
              \/ tip' # tip]_vars

\* C37: with several workers the read-and-advance of scrape_next_offset is
\* atomic.  The offsets read since the cursor last wrapped are the
\* multiples of the stride BLOCK_SIZE - 1 in order, 0 first, none twice,
\* none left out; and each is handed to exactly one worker, by a step in
\* which no other worker moves.
C37_EachOffsetHandedOnce ==
    /\ [](\A i \in DOMAIN handed.offsets :
               handed.offsets[i] = (i - 1) * (BLOCK_SIZE - 1))
    /\ [][handed' # handed
              => \E w \in Workers :
                    /\ pc[w] = "idle" /\ pc'[w] = "rpc"
                    /\ loc'[w].offset
                           = handed'.offsets[Len(handed'.offsets)]
                    /\ \A v \in Workers \ {w} :
                           pc'[v] = pc[v] /\ loc'[v] = loc[v]]_vars

\* C37's case: both workers hold an offset of the same pass, 0 and the
\* stride, and the cursor stands at twice the stride.
C37_Witness ==
    /\ handed = [offsets |-> <<0, BLOCK_SIZE - 1>>, wrapped |-> FALSE]
    /\ loc[1].offset = BLOCK_SIZE - 1
    /\ loc[2].offset = 0
    /\ pc[1] = "rpc"
    /\ pc[2] \in {"rpc", "begin", "serialize", "reconcile"}
    /\ db.global.scrape_next_offset = 2 * (BLOCK_SIZE - 1)

\* C38: the file-layout scraper rescans with updated_at above the largest
\* stamp M its previous scan saw, and no row is stamped at or below M
\* later; so a scan without reset queues every non-deleted row without
\* file_info that was added, changed or undeleted since the previous scan
\* (every such row when the previous scan saw no row at all).
C38_RescanMissesNoLaterRow ==
    [][(/\ filer.pc = "idle"
        /\ filer' # filer
        /\ ~filer'.reset)
           => \A id \in DOMAIN db.torrent_entry :
                  (/\ db.torrent_entry[id].deleted = 0
                   /\ id \notin DOMAIN db.file_info
                   /\ \/ filer.ts = NULL
                      \/ db.torrent_entry[id].updated_at > filer.ts)
                      => \/ filer'.id = id
                         \/ BagIn(id, filer'.queue)]_vars

\* The row as an upsert that finds it deleted, or changed, leaves it: not
\* deleted and stamped anew when it was deleted, untouched when it was not.
Undeleted(row, changestamp) ==
    IF row.deleted = 1
      THEN [row EXCEPT !.deleted = 0, !.updated_at = changestamp]
      ELSE row

\* C39: an upsert of an entity whose torrent_entry row is deleted and
\* equal to the entity in every other column, with group and series rows
\* equal to the entity's, clears the deletion mark of the torrent_entry
\* row and of those of the group and series rows that carried one, stamps
\* each row it changed with the changestamp of the transaction, and
\* changes nothing else in the three rows.
C39_UpsertUndeletes ==
    [][LET e == Upserted
           changestamp == issued'[Len(issued')]
       IN  (/\ e # NoEntity
            /\ e.id \in DOMAIN db.torrent_entry
            /\ db.torrent_entry[e.id].deleted = 1
            /\ db.torrent_entry[e.id].group_id = e.group_id
            /\ db.torrent_entry[e.id].important = e.important
            /\ db.torrent_entry[e.id].counters = e.counters
            /\ db.torrent_entry[e.id].raw_torrent_cached
                   = raw_torrent_cached(e.id)
            /\ StoredParents(db, e))
           => /\ db'.torrent_entry[e.id]
                    = Undeleted(db.torrent_entry[e.id], changestamp)
              /\ db'.torrent_entry[e.id].deleted = 0
              /\ db'.torrent_entry_group[e.group_id]
                    = Undeleted(db.torrent_entry_group[e.group_id],
                                changestamp)
              /\ db'.series[e.series_id]
                    = Undeleted(db.series[e.series_id], changestamp)]_vars

\* C39's case: the first transaction over a prior cache has moved entity 2
\* to group 2 and series 2, which left group 1 and series 1 deleted, and
\* has then upserted entity 1, whose row was deleted, with the group and
\* series it had: the three rows are live again under the changestamp of
\* the transaction.
C39_Witness ==
    /\ pc[1] = "reconcile"
    /\ issued = <<loc[1].changestamp>>
    /\ loc[1].found = 1
    /\ loc[1].te = [id |-> 1, group_id |-> 1, series_id |-> 1,
                    important |-> 0, counters |-> 0, series_params |-> 0]
    /\ {1, 2} \subseteq DOMAIN db.torrent_entry
    /\ {1, 2} \subseteq DOMAIN db.torrent_entry_group
    /\ {1, 2} \subseteq DOMAIN db.series
    /\ db.torrent_entry[2].group_id = 2
    /\ db.torrent_entry_group[2].series_id = 2
    /\ db.torrent_entry[1]
           = [group_id |-> 1, important |-> 0, raw_torrent_cached |-> 0,
              counters |-> 0, updated_at |-> loc[1].changestamp,
              deleted |-> 0]
    /\ db.torrent_entry_group[1]
           = [series_id |-> 1, updated_at |-> loc[1].changestamp,
              deleted |-> 0]
    /\ db.series[1]
           = [params |-> 0, updated_at |-> loc[1].changestamp, deleted |-> 0]

\* C40: over a catalog that does not change, once scrape_last_results is
\* stored and not zero, every getTorrents call of the backfill worker is
\* made at an offset below scrape_last_results.
C40_NoFetchPastLastResults ==
    [][\A w \in Workers :
          (/\ pc[w] = "rpc"
           /\ pc'[w] = "begin"
           /\ db.global.scrape_last_results # None
           /\ db.global.scrape_last_results # 0)
              => loc[w].offset < db.global.scrape_last_results]_vars

\* The sum of the first n lengths of a files list.
RECURSIVE SumLengths(_, _)
SumLengths(files, n) ==
    IF n = 0 THEN 0 ELSE files[n] + SumLengths(files, n - 1)

\* C12: the records of a metafile are contiguous and in metafile order:
\* record i has index i, the first start is 0, each start is the stop
\* before, each stop is start plus the file's length, the last stop is the
\* sum of the lengths; without a files list there is exactly one record
\* (index 0, start 0, stop = length).
C12_FileInfoContiguous ==
    from_tobj.pc = "done" =>
        LET tobj == from_tobj.tobj
            values == from_tobj.values
        IN  IF tobj.has_files
              THEN /\ Len(values) = Len(tobj.files)
                   /\ \A i \in DOMAIN values :
                        /\ values[i].index = i - 1
                        /\ values[i].start =
                               IF i = 1 THEN 0 ELSE values[i - 1].stop
                        /\ values[i].stop = values[i].start + tobj.files[i]
                   /\ values # <<>> =>
                        values[Len(values)].stop
                            = SumLengths(tobj.files, Len(tobj.files))
              ELSE values = <<[index |-> 0, start |-> 0,
                               stop |-> tobj.length]>>

\* C12's case: a metafile of MaxFiles files, the first of them empty, the
\* others not, has been run through the generator.
C12_Witness ==
    /\ from_tobj.pc = "done"
    /\ Len(from_tobj.values) = MaxFiles
    /\ from_tobj.values[1].stop = 0
    /\ \A i \in 2..MaxFiles :
           from_tobj.values[i].stop > from_tobj.values[i].start

====
